---- MODULE Spec2Model ----
(***************************************************************************)
(* The turn engine of the board-game server (server/src/engine.ts) over    *)
(* the board and the event cards of shared/src/index.ts.                   *)
(*                                                                         *)
(* A player id is the player's index in the player list (ids are unique    *)
(* and the list is only ever appended to); NoPlayer stands for an          *)
(* undefined ownerId / winnerId.  A tile id is the tile's board index;     *)
(* NoTile stands for an undefined awaitingPurchase / awaitingUpgrade.      *)
(* Log lines and timestamps carry no game logic and are left out.          *)
(***************************************************************************)
EXTENDS Integers, Sequences, FiniteSets, TLC

\* ------------------------------------------------------------------------
\* Bounds of the exploration
\* ------------------------------------------------------------------------

\* number of consecutive turns, counted from the initial position, in which
\* the dice may be rolled
MaxTurns == 1

\* Math.random() returns one of r / RandomSteps, r in 0 .. RandomSteps - 1
RandomSteps == 6

\* the connections the server has accepted
MaxSockets == 2

\* ------------------------------------------------------------------------
\* Program constants
\* ------------------------------------------------------------------------

BAIL_COST == 50

MAX_JAIL_TURNS == 3

MAX_PROPERTY_LEVEL == 3

PROPERTY_PRICE_MULTIPLIER == 2

PROPERTY_RENT_MULTIPLIER == 2

DieFaces == 6

NoPlayer == 0

NoSocket == 0

Sockets == 1 .. MaxSockets

NoTile == -1

NoPosition == -1

DEFAULT_SETTINGS == [startingCash |-> 1500, passStartBonus |-> 200, maxPlayers |-> 12]

\* shared/src/index.ts DEFAULT_BOARD; element k+1 is the tile of index k.
\* price and baseRent are the reference values, before cloneBoard scales them.
DEFAULT_BOARD ==
  << [type |-> "start",      price |-> 0,   baseRent |-> 0,  amount |-> 0],
     [type |-> "property",   price |-> 100, baseRent |-> 25, amount |-> 0],
     [type |-> "property",   price |-> 120, baseRent |-> 30, amount |-> 0],
     [type |-> "tax",        price |-> 0,   baseRent |-> 0,  amount |-> 150],
     [type |-> "event",      price |-> 0,   baseRent |-> 0,  amount |-> 0],
     [type |-> "property",   price |-> 140, baseRent |-> 35, amount |-> 0],
     [type |-> "property",   price |-> 160, baseRent |-> 40, amount |-> 0],
     [type |-> "jail",       price |-> 0,   baseRent |-> 0,  amount |-> 0],
     [type |-> "property",   price |-> 180, baseRent |-> 45, amount |-> 0],
     [type |-> "property",   price |-> 200, baseRent |-> 50, amount |-> 0],
     [type |-> "tax",        price |-> 0,   baseRent |-> 0,  amount |-> 100],
     [type |-> "event",      price |-> 0,   baseRent |-> 0,  amount |-> 0],
     [type |-> "property",   price |-> 220, baseRent |-> 55, amount |-> 0],
     [type |-> "property",   price |-> 240, baseRent |-> 60, amount |-> 0],
     [type |-> "free",       price |-> 0,   baseRent |-> 0,  amount |-> 0],
     [type |-> "property",   price |-> 260, baseRent |-> 65, amount |-> 0],
     [type |-> "property",   price |-> 280, baseRent |-> 70, amount |-> 0],
     [type |-> "event",      price |-> 0,   baseRent |-> 0,  amount |-> 0],
     [type |-> "property",   price |-> 300, baseRent |-> 75, amount |-> 0],
     [type |-> "go-to-jail", price |-> 0,   baseRent |-> 0,  amount |-> 0] >>

tilesCount == Len(DEFAULT_BOARD)

TileIndex == 0 .. (tilesCount - 1)

TileType(i) == DEFAULT_BOARD[i + 1].type

PropertyIndex == { i \in TileIndex : TileType(i) = "property" }

\* shared/src/index.ts EVENT_CARDS, by card id; an effect field the card does
\* not have is 0 (money, move), NoPosition (toPosition) or FALSE (goToJail).
EVENT_CARDS ==
  << [id |-> "bonus-100", money |-> 100,  move |-> 0,  toPosition |-> NoPosition, goToJail |-> FALSE],
     [id |-> "tax-100",   money |-> -100, move |-> 0,  toPosition |-> NoPosition, goToJail |-> FALSE],
     [id |-> "avanco-3",  money |-> 0,    move |-> 3,  toPosition |-> NoPosition, goToJail |-> FALSE],
     [id |-> "volta-2",   money |-> 0,    move |-> -2, toPosition |-> NoPosition, goToJail |-> FALSE] >>

\* ------------------------------------------------------------------------
\* Pure helpers
\* ------------------------------------------------------------------------

Max(a, b) == IF a >= b THEN a ELSE b

Min(a, b) == IF a <= b THEN a ELSE b

\* The values a settings override can hold: the caller's object comes from
\* JSON.parse unchecked, so besides numbers a field can be null or a string
\* that is no number, an in-process caller can pass undefined or NaN, and a
\* field can be missing.
JsNumber(n) == [kind |-> "number", n |-> n]

JsNaN == [kind |-> "NaN", n |-> 0]

JsUndefined == [kind |-> "undefined", n |-> 0]

JsNull == [kind |-> "null", n |-> 0]

JsString == [kind |-> "string", n |-> 0]

JsMissing == [kind |-> "missing", n |-> 0]

\* the number Math.min and Math.max make of an argument
ToNumber(v) ==
  CASE v.kind = "number" -> v
    [] v.kind = "null"   -> JsNumber(0)
    [] OTHER             -> JsNaN

\* Math.min and Math.max return NaN if an argument is NaN
MathMin(a, b) ==
  IF ToNumber(a).kind = "NaN" \/ ToNumber(b).kind = "NaN" THEN JsNaN
  ELSE JsNumber(Min(ToNumber(a).n, ToNumber(b).n))

MathMax(a, b) ==
  IF ToNumber(a).kind = "NaN" \/ ToNumber(b).kind = "NaN" THEN JsNaN
  ELSE JsNumber(Max(ToNumber(a).n, ToNumber(b).n))

clamp(value, min, max) == MathMax(JsNumber(min), MathMin(JsNumber(max), value))

\* the remainder operator of the language: the sign of the dividend
JsRem(a, n) == IF a >= 0 THEN a % n ELSE 0 - ((0 - a) % n)

\* { ...DEFAULT_SETTINGS, ...settings }: a field the override has replaces
\* the default, whatever it holds
mergeSettings(settings) ==
  [k \in DOMAIN DEFAULT_SETTINGS |->
     IF settings[k].kind = "missing" THEN JsNumber(DEFAULT_SETTINGS[k])
     ELSE settings[k]]

sanitizeSettings(settings) ==
  LET merged == mergeSettings(settings)
  IN [startingCash   |-> clamp(merged.startingCash, 500, 4000),
      passStartBonus |-> clamp(merged.passStartBonus, 100, 500),
      maxPlayers     |-> clamp(merged.maxPlayers, 2, 12)]

\* the settings of a game made with the numbers of input as the override
numericSettings(input) ==
  LET s == sanitizeSettings([k \in DOMAIN input |-> JsNumber(input[k])])
  IN [k \in DOMAIN s |-> s[k].n]

\* every order shuffle can return for the cards
shuffle(cards) ==
  { s \in [1 .. Len(cards) -> { cards[k] : k \in 1 .. Len(cards) }] :
      \A c \in 1 .. Len(cards) : \E k \in 1 .. Len(cards) : s[k] = cards[c] }

\* price and base rent of a tile of the game's board, as cloneBoard sets them
\* (the reference values are integers, so Math.round changes nothing)
TilePrice(i) == DEFAULT_BOARD[i + 1].price * PROPERTY_PRICE_MULTIPLIER

TileBaseRent(i) == DEFAULT_BOARD[i + 1].baseRent * PROPERTY_RENT_MULTIPLIER

cloneBoard == [i \in PropertyIndex |-> [ownerId |-> NoPlayer, level |-> 0]]

propertyRent(i, level) == TileBaseRent(i) * Max(1, level)

propertyUpgradeCost(i, level) == TilePrice(i) * Max(1, level)

\* ------------------------------------------------------------------------
\* State
\* ------------------------------------------------------------------------

VARIABLES
  status,      \* "lobby" | "active" | "finished"
  players,     \* the player list, in turn order
  tiles,       \* ownerId and level of every property tile
  turn,        \* currentPlayerId, rolled, dice, awaitingPurchase, awaitingUpgrade
  turnNumber,
  deck,        \* the draw pile, front first
  winnerId,
  settings,
  last,        \* the most recent call of the action API and whether it returned
  horizon,     \* last turn number in which the exploration rolls the dice
  session,     \* the player id of every connection that is in the room
  connections, \* room.connections: the connection registered for a player id
  readyState,  \* of every connection: "OPEN", "CLOSING" or "CLOSED"
  disconnected,\* the player ids whose disconnected flag is set
  sent,        \* of every connection: the messages the last handler sent to it
  sender       \* the connection whose message or close event was handled last

gameVars == <<status, players, tiles, turn, turnNumber, deck, winnerId, settings>>

transportVars == <<session, connections, readyState, disconnected, sent, sender>>

vars == <<status, players, tiles, turn, turnNumber, deck, winnerId, settings, last, horizon,
          session, connections, readyState, disconnected, sent, sender>>

hostId == 1

NoDice == [values |-> <<0, 0>>, total |-> 0]

\* the GameState object the engine's methods work on
Game ==
  [status |-> status, players |-> players, tiles |-> tiles, turn |-> turn,
   turnNumber |-> turnNumber, deck |-> deck, winnerId |-> winnerId,
   settings |-> settings]

newPlayer(cash) ==
  [money |-> cash, position |-> 0, inJailTurns |-> 0, bankrupt |-> FALSE]

newTurn(playerId) ==
  [currentPlayerId |-> playerId, rolled |-> FALSE, dice |-> NoDice,
   awaitingPurchase |-> NoTile, awaitingUpgrade |-> NoTile]

\* ------------------------------------------------------------------------
\* The engine's private methods, as functions of the game state
\* ------------------------------------------------------------------------

alivePlayers(g) == { i \in DOMAIN g.players : ~g.players[i].bankrupt }

\* checkVictory ending the game while two players are solvent
checkVictoryAtTwo(g) ==
  IF g.status = "finished" THEN g
  ELSE IF Cardinality(alivePlayers(g)) <= 2
       THEN [g EXCEPT !.status = "finished",
                      !.winnerId = CHOOSE i \in alivePlayers(g) : TRUE]
       ELSE g

\* checkVictory ending the game without naming the winner
checkVictoryNoWinner(g) ==
  IF g.status = "finished" THEN g
  ELSE IF Cardinality(alivePlayers(g)) = 1
       THEN [g EXCEPT !.status = "finished"]
       ELSE g

checkVictory(g) ==
  IF g.status = "finished" THEN g
  ELSE IF Cardinality(alivePlayers(g)) = 1
       THEN [g EXCEPT !.status = "finished",
                      !.winnerId = CHOOSE i \in alivePlayers(g) : TRUE]
       ELSE g

\* checkBankruptcy without its closing victory check
checkBankruptcyNoVictory(g, p) ==
  IF g.players[p].money >= 0 \/ g.players[p].bankrupt THEN g
  ELSE [g EXCEPT !.players[p].bankrupt = TRUE,
                 !.players[p].inJailTurns = 0,
                 !.tiles = [i \in PropertyIndex |->
                              IF g.tiles[i].ownerId = p
                              THEN [g.tiles[i] EXCEPT !.ownerId = NoPlayer]
                              ELSE g.tiles[i]]]

checkBankruptcy(g, p) ==
  IF g.players[p].money >= 0 \/ g.players[p].bankrupt THEN g
  ELSE checkVictory(
         [g EXCEPT !.players[p].bankrupt = TRUE,
                   !.players[p].inJailTurns = 0,
                   !.tiles = [i \in PropertyIndex |->
                                IF g.tiles[i].ownerId = p
                                THEN [g.tiles[i] EXCEPT !.ownerId = NoPlayer]
                                ELSE g.tiles[i]]])

\* chargeBank that subtracts the amount and skips the bankruptcy check
chargeBankNoCheck(g, p, amount) == [g EXCEPT !.players[p].money = @ - amount]

chargeBank(g, p, amount) ==
  checkBankruptcy([g EXCEPT !.players[p].money = @ - amount], p)

movePlayerBonusOnLowerIndex(g, p, steps) ==
  LET oldPos == g.players[p].position
      rem == JsRem(oldPos + steps, tilesCount)
      newPos == IF rem < 0 THEN rem + tilesCount ELSE rem
      passedStart == newPos < oldPos
  IN [g EXCEPT !.players[p].position = newPos,
               !.players[p].money =
                   IF passedStart THEN @ + g.settings.passStartBonus ELSE @]

movePlayer(g, p, steps) ==
  LET oldPos == g.players[p].position
      rem == JsRem(oldPos + steps, tilesCount)
      newPos == IF rem < 0 THEN rem + tilesCount ELSE rem
      passedStart == \/ oldPos + steps >= tilesCount
                     \/ (newPos = 0 /\ steps > 0 /\ oldPos # 0)
  IN [g EXCEPT !.players[p].position = newPos,
               !.players[p].money =
                   IF passedStart THEN @ + g.settings.passStartBonus ELSE @]

\* tiles.findIndex(t => t.type === "jail")
jailIndex ==
  IF \E i \in TileIndex : TileType(i) = "jail"
  THEN CHOOSE i \in TileIndex :
         TileType(i) = "jail" /\ \A j \in TileIndex : TileType(j) = "jail" => i <= j
  ELSE -1

sendToJailWithBonus(g, p) ==
  [g EXCEPT !.players[p].position = IF jailIndex >= 0 THEN jailIndex ELSE @,
            !.players[p].inJailTurns = MAX_JAIL_TURNS,
            !.players[p].money =
                IF jailIndex >= 0 /\ jailIndex < g.players[p].position
                THEN @ + g.settings.passStartBonus ELSE @]

\* sendToJail counting the jail turns without moving the token
sendToJailKeepsPosition(g, p) ==
  [g EXCEPT !.players[p].inJailTurns = MAX_JAIL_TURNS]

sendToJail(g, p) ==
  [g EXCEPT !.players[p].position = IF jailIndex >= 0 THEN jailIndex ELSE @,
            !.players[p].inJailTurns = MAX_JAIL_TURNS]

handlePropertyRentToBank(g, p, i) ==
  LET g1 == [g EXCEPT !.turn.awaitingUpgrade = NoTile]
      owner == g.tiles[i].ownerId
      level == Max(1, g.tiles[i].level)
  IN IF owner = NoPlayer
     THEN [g1 EXCEPT !.turn.awaitingPurchase = i]
     ELSE IF owner = p
     THEN IF level < MAX_PROPERTY_LEVEL
          THEN [g1 EXCEPT !.tiles[i].level = level, !.turn.awaitingUpgrade = i]
          ELSE [g1 EXCEPT !.tiles[i].level = level]
     ELSE IF g.players[owner].bankrupt
     THEN g1
     ELSE checkBankruptcy(
            [g1 EXCEPT !.tiles[i].level = level,
                       !.players[p].money = @ - propertyRent(i, level)], p)

\* handleProperty with the rent paid by the owner to the visitor
handlePropertyOwnerPays(g, p, i) ==
  LET g1 == [g EXCEPT !.turn.awaitingUpgrade = NoTile]
      owner == g.tiles[i].ownerId
      level == Max(1, g.tiles[i].level)
  IN IF owner = NoPlayer
     THEN [g1 EXCEPT !.turn.awaitingPurchase = i]
     ELSE IF owner = p
     THEN IF level < MAX_PROPERTY_LEVEL
          THEN [g1 EXCEPT !.tiles[i].level = level, !.turn.awaitingUpgrade = i]
          ELSE [g1 EXCEPT !.tiles[i].level = level]
     ELSE IF g.players[owner].bankrupt
     THEN g1
     ELSE checkBankruptcy(
            [g1 EXCEPT !.tiles[i].level = level,
                       !.players[owner].money = @ - propertyRent(i, level),
                       !.players[p].money = @ + propertyRent(i, level)], owner)

handleProperty(g, p, i) ==
  LET g1 == [g EXCEPT !.turn.awaitingUpgrade = NoTile]
      owner == g.tiles[i].ownerId
      level == Max(1, g.tiles[i].level)
  IN IF owner = NoPlayer
     THEN [g1 EXCEPT !.turn.awaitingPurchase = i]
     ELSE IF owner = p
     THEN IF level < MAX_PROPERTY_LEVEL
          THEN [g1 EXCEPT !.tiles[i].level = level, !.turn.awaitingUpgrade = i]
          ELSE [g1 EXCEPT !.tiles[i].level = level]
     ELSE IF g.players[owner].bankrupt
     THEN g1
     ELSE checkBankruptcy(
            [g1 EXCEPT !.tiles[i].level = level,
                       !.players[p].money = @ - propertyRent(i, level),
                       !.players[owner].money = @ + propertyRent(i, level)], p)

RECURSIVE resolveTile(_, _, _)

\* handleEvent reading the front card without removing it
handleEventKeepsCard(g, p, sh) ==
  LET g1 == IF Len(g.deck) = 0 THEN [g EXCEPT !.deck = sh] ELSE g
      card == Head(g1.deck)
      g2 == g1
      g3 == IF card.money # 0
            THEN checkBankruptcy([g2 EXCEPT !.players[p].money = @ + card.money], p)
            ELSE g2
  IN IF card.goToJail
     THEN sendToJail(g3, p)
     ELSE LET g4 == IF card.move # 0
                    THEN resolveTile(movePlayer(g3, p, card.move), p, sh)
                    ELSE g3
          IN IF card.toPosition # NoPosition
             THEN resolveTile([g4 EXCEPT !.players[p].position = card.toPosition], p, sh)
             ELSE g4

\* sh is what shuffle returns if the draw finds the deck empty
handleEvent(g, p, sh) ==
  LET g1 == IF Len(g.deck) = 0 THEN [g EXCEPT !.deck = sh] ELSE g
      card == Head(g1.deck)
      g2 == [g1 EXCEPT !.deck = Tail(@)]
      g3 == IF card.money # 0
            THEN checkBankruptcy([g2 EXCEPT !.players[p].money = @ + card.money], p)
            ELSE g2
  IN IF card.goToJail
     THEN sendToJail(g3, p)
     ELSE LET g4 == IF card.move # 0
                    THEN resolveTile(movePlayer(g3, p, card.move), p, sh)
                    ELSE g3
          IN IF card.toPosition # NoPosition
             THEN resolveTile([g4 EXCEPT !.players[p].position = card.toPosition], p, sh)
             ELSE g4

\* resolves the tile the player stands on (the cameFromEvent flag only
\* suppresses a log line)
resolveTile(g, p, sh) ==
  LET i == g.players[p].position
      type == TileType(i)
  IN CASE type = "property"   -> handleProperty(g, p, i)
       [] type = "tax"        -> chargeBank(g, p, DEFAULT_BOARD[i + 1].amount)
       [] type = "event"      -> handleEvent(g, p, sh)
       [] type = "go-to-jail" -> sendToJail(g, p)
       [] OTHER               -> g

\* nextAlivePlayer that takes the next player of the list, bankrupt or not
nextAlivePlayerNoSkip(g, currentId) == (currentId % Len(g.players)) + 1

nextAlivePlayer(g, currentId) ==
  LET n == Len(g.players)
      candidate(k) == ((currentId - 1 + k) % n) + 1
      hits == { k \in 1 .. n : ~g.players[candidate(k)].bankrupt }
  IN IF hits = {} THEN currentId
     ELSE candidate(CHOOSE k \in hits : \A j \in hits : k <= j)

\* advanceTurn that keeps the pending decisions of the turn that ended
advanceTurnKeepsPending(g) ==
  checkVictory([g EXCEPT !.turn.currentPlayerId =
                             nextAlivePlayer(g, g.turn.currentPlayerId),
                         !.turn.rolled = FALSE,
                         !.turn.dice = NoDice,
                         !.turnNumber = @ + 1])

\* advanceTurn passing the turn without counting it
advanceTurnKeepsCounter(g) ==
  checkVictory([g EXCEPT !.turn = newTurn(nextAlivePlayer(g, g.turn.currentPlayerId))])

advanceTurn(g) ==
  checkVictory([g EXCEPT !.turn = newTurn(nextAlivePlayer(g, g.turn.currentPlayerId)),
                         !.turnNumber = @ + 1])

\* ------------------------------------------------------------------------
\* The action API: for each method, the error it throws ("" when it throws
\* none) and the state it leaves when it returns
\* ------------------------------------------------------------------------

ensureActivePlayerNoTurnCheck(g, playerId) ==
  IF g.status # "active" THEN "Partida nao esta ativa." ELSE ""

ensureActivePlayer(g, playerId) ==
  IF g.status # "active" THEN "Partida nao esta ativa."
  ELSE IF g.turn.currentPlayerId # playerId THEN "Acao invalida: nao e seu turno."
  ELSE ""

addPlayerErrorOffByOne(g) ==
  IF Len(g.players) > g.settings.maxPlayers THEN "Sala cheia" ELSE ""

addPlayerError(g) ==
  IF Len(g.players) >= g.settings.maxPlayers THEN "Sala cheia" ELSE ""

addPlayer(g) ==
  [g EXCEPT !.players = Append(@, newPlayer(g.settings.startingCash))]

startGameErrorNoCountCheck(g) ==
  IF g.status # "lobby" THEN "Partida ja iniciada" ELSE ""

startGameError(g) ==
  IF g.status # "lobby" THEN "Partida ja iniciada"
  ELSE IF Len(g.players) < 2 THEN "Precisa de pelo menos 2 jogadores"
  ELSE ""

startGame(g) ==
  [g EXCEPT !.status = "active",
            !.turn = newTurn(IF ~g.players[hostId].bankrupt
                             THEN hostId
                             ELSE nextAlivePlayer(g, hostId))]

\* rollDice without the already-rolled check
rollDiceErrorNoRolledCheck(g, playerId) ==
  IF ensureActivePlayer(g, playerId) # "" THEN ensureActivePlayer(g, playerId)
  ELSE IF g.players[playerId].bankrupt THEN "Jogador invalido"
  ELSE IF g.turn.awaitingPurchase # NoTile
       THEN "Decida comprar ou passar a propriedade antes."
  ELSE ""

rollDiceError(g, playerId) ==
  IF ensureActivePlayer(g, playerId) # "" THEN ensureActivePlayer(g, playerId)
  ELSE IF g.players[playerId].bankrupt THEN "Jogador invalido"
  ELSE IF g.turn.rolled THEN "Dados ja foram rolados neste turno."
  ELSE IF g.turn.awaitingPurchase # NoTile
       THEN "Decida comprar ou passar a propriedade antes."
  ELSE ""

\* rollDice whose doubles branch moves the player without resetting the
\* jail counter
rollDiceDoubleKeepsJail(g, playerId, d1, d2, sh) ==
  LET wasInJail == g.players[playerId].inJailTurns > 0
      total == d1 + d2
      g0 == [g EXCEPT !.turn.dice = [values |-> <<d1, d2>>, total |-> total],
                      !.turn.rolled = TRUE]
      moveAndResolve(gx) ==
        checkVictory(resolveTile(movePlayer(gx, playerId, total), playerId, sh))
  IN IF wasInJail
     THEN IF d1 = d2
          THEN moveAndResolve(g0)
          ELSE IF g.players[playerId].inJailTurns = 1
          THEN LET g1 == chargeBank(g0, playerId, BAIL_COST)
               IN IF g1.players[playerId].bankrupt
                  THEN g1
                  ELSE moveAndResolve([g1 EXCEPT !.players[playerId].inJailTurns = 0])
          ELSE [g0 EXCEPT !.players[playerId].inJailTurns = @ - 1]
     ELSE moveAndResolve(g0)

\* rollDice whose forced-bail branch goes on to move a player the bail has
\* just bankrupted
rollDiceBailNoReturn(g, playerId, d1, d2, sh) ==
  LET wasInJail == g.players[playerId].inJailTurns > 0
      total == d1 + d2
      g0 == [g EXCEPT !.turn.dice = [values |-> <<d1, d2>>, total |-> total],
                      !.turn.rolled = TRUE]
      moveAndResolve(gx) ==
        checkVictory(resolveTile(movePlayer(gx, playerId, total), playerId, sh))
  IN IF wasInJail
     THEN IF d1 = d2
          THEN moveAndResolve([g0 EXCEPT !.players[playerId].inJailTurns = 0])
          ELSE IF g.players[playerId].inJailTurns = 1
          THEN LET g1 == chargeBank(g0, playerId, BAIL_COST)
               IN moveAndResolve([g1 EXCEPT !.players[playerId].inJailTurns = 0])
          ELSE [g0 EXCEPT !.players[playerId].inJailTurns = @ - 1]
     ELSE moveAndResolve(g0)

\* rollDice whose failed jail roll moves the player all the same
rollDiceJailedMoves(g, playerId, d1, d2, sh) ==
  LET wasInJail == g.players[playerId].inJailTurns > 0
      total == d1 + d2
      g0 == [g EXCEPT !.turn.dice = [values |-> <<d1, d2>>, total |-> total],
                      !.turn.rolled = TRUE]
      moveAndResolve(gx) ==
        checkVictory(resolveTile(movePlayer(gx, playerId, total), playerId, sh))
  IN IF wasInJail
     THEN IF d1 = d2
          THEN moveAndResolve([g0 EXCEPT !.players[playerId].inJailTurns = 0])
          ELSE IF g.players[playerId].inJailTurns = 1
          THEN LET g1 == chargeBank(g0, playerId, BAIL_COST)
               IN IF g1.players[playerId].bankrupt
                  THEN g1
                  ELSE moveAndResolve([g1 EXCEPT !.players[playerId].inJailTurns = 0])
          ELSE moveAndResolve([g0 EXCEPT !.players[playerId].inJailTurns = @ - 1])
     ELSE moveAndResolve(g0)

rollDice(g, playerId, d1, d2, sh) ==
  LET wasInJail == g.players[playerId].inJailTurns > 0
      total == d1 + d2
      g0 == [g EXCEPT !.turn.dice = [values |-> <<d1, d2>>, total |-> total],
                      !.turn.rolled = TRUE]
      moveAndResolve(gx) ==
        checkVictory(resolveTile(movePlayer(gx, playerId, total), playerId, sh))
  IN IF wasInJail
     THEN IF d1 = d2
          THEN moveAndResolve([g0 EXCEPT !.players[playerId].inJailTurns = 0])
          ELSE IF g.players[playerId].inJailTurns = 1
          THEN LET g1 == chargeBank(g0, playerId, BAIL_COST)
               IN IF g1.players[playerId].bankrupt
                  THEN g1
                  ELSE moveAndResolve([g1 EXCEPT !.players[playerId].inJailTurns = 0])
          ELSE [g0 EXCEPT !.players[playerId].inJailTurns = @ - 1]
     ELSE moveAndResolve(g0)

\* buyProperty selling to a player who cannot afford the price
buyPropertyErrorNoFundsCheck(g, playerId, propertyId) ==
  IF ensureActivePlayer(g, playerId) # "" THEN ensureActivePlayer(g, playerId)
  ELSE IF g.turn.awaitingPurchase # propertyId
       THEN "Nenhuma compra pendente para esta propriedade."
  ELSE IF propertyId \notin PropertyIndex THEN "Propriedade invalida"
  ELSE IF g.tiles[propertyId].ownerId # NoPlayer THEN "Propriedade ja possui dono"
  ELSE ""

buyPropertyError(g, playerId, propertyId) ==
  IF ensureActivePlayer(g, playerId) # "" THEN ensureActivePlayer(g, playerId)
  ELSE IF g.turn.awaitingPurchase # propertyId
       THEN "Nenhuma compra pendente para esta propriedade."
  ELSE IF propertyId \notin PropertyIndex THEN "Propriedade invalida"
  ELSE IF g.tiles[propertyId].ownerId # NoPlayer THEN "Propriedade ja possui dono"
  ELSE IF g.players[playerId].money < TilePrice(propertyId) THEN "Dinheiro insuficiente"
  ELSE ""

\* buyProperty that sets the owner and leaves the level as it was
buyPropertyKeepsLevel(g, playerId, propertyId) ==
  checkVictory(
    [g EXCEPT !.players[playerId].money = @ - TilePrice(propertyId),
              !.tiles[propertyId].ownerId = playerId,
              !.turn.awaitingPurchase = NoTile])

\* buyProperty keeping the level a released property was left at
buyPropertyKeepsReleasedLevel(g, playerId, propertyId) ==
  checkVictory(
    [g EXCEPT !.players[playerId].money = @ - TilePrice(propertyId),
              !.tiles[propertyId] =
                  [ownerId |-> playerId,
                   level |-> Max(1, g.tiles[propertyId].level)],
              !.turn.awaitingPurchase = NoTile])

\* buyProperty leaving the offer pending
buyPropertyKeepsOffer(g, playerId, propertyId) ==
  checkVictory(
    [g EXCEPT !.players[playerId].money = @ - TilePrice(propertyId),
              !.tiles[propertyId] = [ownerId |-> playerId, level |-> 1]])

buyProperty(g, playerId, propertyId) ==
  checkVictory(
    [g EXCEPT !.players[playerId].money = @ - TilePrice(propertyId),
              !.tiles[propertyId] = [ownerId |-> playerId, level |-> 1],
              !.turn.awaitingPurchase = NoTile])

passPurchaseError(g, playerId) ==
  IF ensureActivePlayer(g, playerId) # "" THEN ensureActivePlayer(g, playerId)
  ELSE IF g.turn.awaitingPurchase = NoTile THEN "Nada a passar."
  ELSE ""

passPurchase(g, playerId) == [g EXCEPT !.turn.awaitingPurchase = NoTile]

upgradePropertyErrorNoOfferCheck(g, playerId, propertyId) ==
  IF ensureActivePlayer(g, playerId) # "" THEN ensureActivePlayer(g, playerId)
  ELSE IF propertyId \notin PropertyIndex THEN "Propriedade invalida"
  ELSE IF g.tiles[propertyId].ownerId # playerId
       THEN "Voce nao e o dono desta propriedade."
  ELSE IF g.players[playerId].position # propertyId
       THEN "Voce precisa estar na propriedade para melhora-la."
  ELSE IF Max(1, g.tiles[propertyId].level) >= MAX_PROPERTY_LEVEL
       THEN "Propriedade ja esta no nivel maximo."
  ELSE IF g.players[playerId].money
            < propertyUpgradeCost(propertyId, g.tiles[propertyId].level)
       THEN "Dinheiro insuficiente para melhorar a propriedade."
  ELSE ""

upgradePropertyError(g, playerId, propertyId) ==
  IF ensureActivePlayer(g, playerId) # "" THEN ensureActivePlayer(g, playerId)
  ELSE IF propertyId \notin PropertyIndex THEN "Propriedade invalida"
  ELSE IF g.tiles[propertyId].ownerId # playerId
       THEN "Voce nao e o dono desta propriedade."
  ELSE IF g.turn.awaitingUpgrade # propertyId
       THEN "Melhoria disponivel apenas ao visitar esta propriedade neste turno."
  ELSE IF g.players[playerId].position # propertyId
       THEN "Voce precisa estar na propriedade para melhora-la."
  ELSE IF Max(1, g.tiles[propertyId].level) >= MAX_PROPERTY_LEVEL
       THEN "Propriedade ja esta no nivel maximo."
  ELSE IF g.players[playerId].money
            < propertyUpgradeCost(propertyId, g.tiles[propertyId].level)
       THEN "Dinheiro insuficiente para melhorar a propriedade."
  ELSE ""

upgradeProperty(g, playerId, propertyId) ==
  checkBankruptcy(
    [g EXCEPT !.players[playerId].money =
                  @ - propertyUpgradeCost(propertyId, g.tiles[propertyId].level),
              !.tiles[propertyId].level = Max(1, g.tiles[propertyId].level) + 1,
              !.turn.awaitingUpgrade = NoTile], playerId)

\* payBail without the funds check
payBailErrorNoFundsCheck(g, playerId) ==
  IF ensureActivePlayer(g, playerId) # "" THEN ensureActivePlayer(g, playerId)
  ELSE IF g.players[playerId].inJailTurns <= 0 THEN "Voce nao esta preso"
  ELSE IF g.turn.rolled THEN "Fianca so pode ser paga no inicio do turno."
  ELSE ""

payBailError(g, playerId) ==
  IF ensureActivePlayer(g, playerId) # "" THEN ensureActivePlayer(g, playerId)
  ELSE IF g.players[playerId].inJailTurns <= 0 THEN "Voce nao esta preso"
  ELSE IF g.turn.rolled THEN "Fianca so pode ser paga no inicio do turno."
  ELSE IF g.players[playerId].money < BAIL_COST
       THEN "Dinheiro insuficiente para pagar fianca"
  ELSE ""

payBail(g, playerId) ==
  checkBankruptcy(
    [g EXCEPT !.players[playerId].money = @ - BAIL_COST,
              !.players[playerId].inJailTurns = 0], playerId)

\* endTurn that also refuses while an upgrade offer is open
endTurnErrorUpgradeBlocks(g, playerId) ==
  IF ensureActivePlayer(g, playerId) # "" THEN ensureActivePlayer(g, playerId)
  ELSE IF g.turn.awaitingPurchase # NoTile \/ g.turn.awaitingUpgrade # NoTile
       THEN "Resolva a compra antes de finalizar o turno."
  ELSE IF ~g.turn.rolled THEN "Role os dados antes de finalizar o turno."
  ELSE ""

\* endTurn without the dice check
endTurnErrorNoRollCheck(g, playerId) ==
  IF ensureActivePlayer(g, playerId) # "" THEN ensureActivePlayer(g, playerId)
  ELSE IF g.turn.awaitingPurchase # NoTile
       THEN "Resolva a compra antes de finalizar o turno."
  ELSE ""

\* endTurn refusing a bankrupt player, as rollDice does
endTurnErrorBankruptRefused(g, playerId) ==
  IF ensureActivePlayer(g, playerId) # "" THEN ensureActivePlayer(g, playerId)
  ELSE IF g.turn.awaitingPurchase # NoTile
       THEN "Resolva a compra antes de finalizar o turno."
  ELSE IF g.players[playerId].bankrupt THEN "Jogador invalido"
  ELSE IF ~g.turn.rolled
       THEN IF g.players[playerId].inJailTurns > 0
            THEN "Tente sair da prisao (role os dados ou pague fianca) antes de finalizar o turno."
            ELSE "Role os dados antes de finalizar o turno."
  ELSE ""

endTurnError(g, playerId) ==
  IF ensureActivePlayer(g, playerId) # "" THEN ensureActivePlayer(g, playerId)
  ELSE IF g.turn.awaitingPurchase # NoTile
       THEN "Resolva a compra antes de finalizar o turno."
  ELSE IF ~g.turn.rolled
       THEN IF g.players[playerId].inJailTurns > 0
            THEN "Tente sair da prisao (role os dados ou pague fianca) antes de finalizar o turno."
            ELSE "Role os dados antes de finalizar o turno."
  ELSE ""

endTurn(g, playerId) == advanceTurn(g)

propertyAssetValue(i, level) ==
  TilePrice(i) * (1 + (Max(1, level) * (Max(1, level) - 1)) \div 2)

netWorth(g, playerId) ==
  LET owned == { i \in PropertyIndex : g.tiles[i].ownerId = playerId }
      RECURSIVE sum(_)
      sum(S) == IF S = {} THEN 0
                ELSE LET i == CHOOSE x \in S : TRUE
                     IN propertyAssetValue(i, g.tiles[i].level) + sum(S \ {i})
  IN g.players[playerId].money + sum(owned)

finishByNetWorthTiesLatest(g) ==
  IF g.status = "finished" THEN g
  ELSE LET alive == alivePlayers(g)
           best == { a \in alive : \A b \in alive : netWorth(g, a) >= netWorth(g, b) }
           richest == CHOOSE a \in best : \A b \in best : a >= b
       IN [g EXCEPT !.status = "finished", !.winnerId = richest]

finishByNetWorthNoGuard(g) ==
  LET alive == alivePlayers(g)
      best == { a \in alive : \A b \in alive : netWorth(g, a) >= netWorth(g, b) }
      richest == CHOOSE a \in best : \A b \in best : a <= b
  IN [g EXCEPT !.status = "finished", !.winnerId = richest]

finishByNetWorthError(g) ==
  IF g.status # "finished" /\ alivePlayers(g) = {} THEN "Sem jogadores ativos" ELSE ""

\* the stable sort by descending net worth puts first the earliest player of
\* the list among those of the highest net worth
finishByNetWorth(g) ==
  IF g.status = "finished" THEN g
  ELSE LET alive == alivePlayers(g)
           best == { a \in alive : \A b \in alive : netWorth(g, a) >= netWorth(g, b) }
           richest == CHOOSE a \in best : \A b \in best : a <= b
       IN [g EXCEPT !.status = "finished", !.winnerId = richest]

\* ------------------------------------------------------------------------
\* Initial states
\* ------------------------------------------------------------------------

\* new GameEngine(roomId, hostName, settings), shuffle having returned d
construct(input, d) ==
  [status     |-> "lobby",
   players    |-> << newPlayer(numericSettings(input).startingCash) >>,
   tiles      |-> cloneBoard,
   settings   |-> numericSettings(input),
   turnNumber |-> 1,
   turn       |-> newTurn(hostId),
   deck       |-> d,
   winnerId   |-> NoPlayer]

\* the settings overrides a room is created with
SettingsInputs ==
  { [startingCash |-> 100, passStartBonus |-> 200, maxPlayers |-> 1] }

\* One call of a recorded game: <<method>> or <<"rollDice", die 1, die 2>>,
\* made by the player whose turn it is for the property on offer.  A call the
\* engine rejects leaves the game as it is.  A draw from an empty deck in a
\* recorded game refills it in the order of EVENT_CARDS.
call(g, m) ==
  LET c == g.turn.currentPlayerId
      op == m[1]
  IN CASE op = "addPlayer" ->
            IF addPlayerError(g) = "" THEN addPlayer(g) ELSE g
       [] op = "startGame" ->
            IF startGameError(g) = "" THEN startGame(g) ELSE g
       [] op = "rollDice" ->
            IF rollDiceError(g, c) = ""
            THEN rollDice(g, c, m[2], m[3], EVENT_CARDS) ELSE g
       [] op = "buyProperty" ->
            IF buyPropertyError(g, c, g.turn.awaitingPurchase) = ""
            THEN buyProperty(g, c, g.turn.awaitingPurchase) ELSE g
       [] op = "passPurchase" ->
            IF passPurchaseError(g, c) = "" THEN passPurchase(g, c) ELSE g
       [] op = "upgradeProperty" ->
            IF upgradePropertyError(g, c, g.turn.awaitingUpgrade) = ""
            THEN upgradeProperty(g, c, g.turn.awaitingUpgrade) ELSE g
       [] op = "payBail" ->
            IF payBailError(g, c) = "" THEN payBail(g, c) ELSE g
       [] op = "endTurn" ->
            IF endTurnError(g, c) = "" THEN endTurn(g, c) ELSE g

RECURSIVE replay(_, _)

\* the game after the calls, made in order; a finished game is not played on
replay(g, calls) ==
  IF calls = << >> THEN g
  ELSE LET g1 == call(g, Head(calls))
       IN IF g1.status = "finished" THEN g1 ELSE replay(g1, Tail(calls))

roll(d1, d2) == <<"rollDice", d1, d2>>

buy == <<"buyProperty">>

pass == <<"passPurchase">>

upgrade == <<"upgradeProperty">>

end == <<"endTurn">>

\* Recorded game A: three players on the smallest starting cash.  Player 1
\* buys tile 8, pays the tax of tile 10 and is sent to jail with 40 in cash;
\* player 3 goes bankrupt on the rent of tile 12 in turn 9; player 1 stays
\* jailed for two rolls and leaves on a double in turn 14.
GameA ==
  [input |-> [startingCash |-> 500, passStartBonus |-> 200, maxPlayers |-> 3],
   deck  |-> << EVENT_CARDS[2], EVENT_CARDS[4], EVENT_CARDS[1], EVENT_CARDS[3] >>,
   calls |-> << <<"addPlayer">>, <<"addPlayer">>, <<"startGame">>,
                roll(4, 4), buy, end,    roll(6, 6), buy, end,
                roll(3, 3), buy, end,    roll(1, 1), end,
                roll(1, 1), end,         roll(1, 3), end,
                roll(4, 5), end,         roll(1, 1), pass, end,
                roll(1, 1), end,         roll(1, 2), end,
                roll(2, 2), end,         roll(1, 2), end,
                roll(1, 1), buy, end,    roll(1, 1), pass, end >>]

\* Recorded game B: three players on the default starting cash.  Player 1
\* buys tile 9, is jailed three times and twice leaves on a double onto
\* tile 9, upgrading it to the maximum level with their last cash; the four
\* cards of the deck are drawn by turn 9; player 3 is jailed in turn 12 and
\* pays the forced bail in turn 21; player 1 goes bankrupt on the forced
\* bail in turn 25 and releases tile 9.
GameB ==
  [input |-> [startingCash |-> 1500, passStartBonus |-> 200, maxPlayers |-> 3],
   deck  |-> << EVENT_CARDS[4], EVENT_CARDS[1], EVENT_CARDS[3], EVENT_CARDS[2] >>,
   calls |-> << <<"addPlayer">>, <<"addPlayer">>, <<"startGame">>,
                roll(4, 5), buy, end,      roll(6, 6), buy, end,
                roll(5, 6), end,           roll(4, 6), end,
                roll(1, 2), buy, end,      roll(1, 1), end,
                roll(1, 1), upgrade, end,  roll(1, 1), end,
                roll(3, 3), end,           roll(4, 6), end,
                roll(1, 1), buy, end,      roll(1, 1), end,
                roll(1, 1), upgrade, end,  roll(1, 1), end,
                roll(1, 2), end,           roll(4, 6), end,
                roll(1, 2), end,           roll(1, 2), end,
                roll(1, 2), end,           roll(1, 2), end,
                roll(1, 2), end,           roll(1, 2), end,
                roll(1, 1), end,           roll(1, 1), end,
                roll(1, 2), end,           roll(4, 4), end,
                roll(1, 2), end >>]

\* Recorded game C: two players in a room for three.  Both pay the tax of
\* tile 3 and start turn 3 with 350 each, less than the starting cash.
GameC ==
  [input |-> [startingCash |-> 500, passStartBonus |-> 200, maxPlayers |-> 3],
   deck  |-> << EVENT_CARDS[1], EVENT_CARDS[2], EVENT_CARDS[3], EVENT_CARDS[4] >>,
   calls |-> << <<"addPlayer">>, <<"startGame">>,
                roll(1, 2), end,    roll(1, 2), end >>]

\* the go-to-jail card the engine's test puts on the deck
cartaPrisao ==
  [id |-> "carta-prisao", money |-> 0, move |-> 0, toPosition |-> NoPosition,
   goToJail |-> TRUE]

\* Recorded game D: two players, the go-to-jail card alone on the deck.  Both
\* roll 6+6 to tile 12 and pass the purchase; from there a roll of 5 or of
\* 12 (past the start) ends on an event tile and a roll of 7 on go-to-jail.
GameD ==
  [input |-> [startingCash |-> 1500, passStartBonus |-> 200, maxPlayers |-> 2],
   deck  |-> << cartaPrisao >>,
   calls |-> << <<"addPlayer">>, <<"startGame">>,
                roll(6, 6), pass, end,    roll(6, 6), pass, end >>]

RecordedGames == {GameA, GameB, GameC, GameD}

\* the calls of a recorded game after which a turn starts
turnStarts(rec) ==
  { k \in 1 .. Len(rec.calls) : rec.calls[k][1] \in {"startGame", "endTurn"} }

\* the state of the game is g
StateIs(g) ==
  /\ status = g.status
  /\ players = g.players
  /\ tiles = g.tiles
  /\ turn = g.turn
  /\ turnNumber = g.turnNumber
  /\ deck = g.deck
  /\ winnerId = g.winnerId
  /\ settings = g.settings

\* a room after construction
InitLobby ==
  \E input \in SettingsInputs, d \in shuffle(EVENT_CARDS) :
    /\ StateIs(construct(input, d))
    /\ last = [op |-> "constructor", ok |-> TRUE]

\* a recorded game at the start of one of its turns
InitRecorded ==
  \E rec \in RecordedGames : \E k \in turnStarts(rec) :
    /\ StateIs(replay(construct(rec.input, rec.deck), SubSeq(rec.calls, 1, k)))
    /\ last = [op |-> rec.calls[k][1], ok |-> TRUE]

\* the engine on its own: no connection is open
NoTransport ==
  /\ session = << >>
  /\ connections = << >>
  /\ readyState = [ws \in Sockets |-> "CLOSED"]
  /\ disconnected = {}
  /\ sent = [ws \in Sockets |-> << >>]
  /\ sender = NoSocket

Init ==
  /\ InitLobby \/ InitRecorded
  /\ horizon = turnNumber + MaxTurns - 1
  /\ NoTransport

\* ------------------------------------------------------------------------
\* Actions: one call of the action API each
\* ------------------------------------------------------------------------

\* A call that throws leaves the game as it was: what follows it is what
\* follows the state before it, so the exploration goes on only from states
\* left by a call that returned.
Return(op, g) ==
  /\ last.ok
  /\ status' = g.status
  /\ players' = g.players
  /\ tiles' = g.tiles
  /\ turn' = g.turn
  /\ turnNumber' = g.turnNumber
  /\ deck' = g.deck
  /\ winnerId' = g.winnerId
  /\ settings' = g.settings
  /\ last' = [op |-> op, ok |-> TRUE]
  /\ UNCHANGED horizon
  /\ UNCHANGED transportVars

Throw(op) ==
  /\ last.ok
  /\ UNCHANGED gameVars
  /\ last' = [op |-> op, ok |-> FALSE]
  /\ UNCHANGED horizon
  /\ UNCHANGED transportVars

PlayerIds == 1 .. Len(players)

\* Math.floor(Math.random() * 6) + 1, with Math.random() = r / RandomSteps
rollDieFromZero(r) == (r * DieFaces) \div RandomSteps

rollDie(r) == (r * DieFaces) \div RandomSteps + 1

\* the values rollDie returns
Die == { rollDie(r) : r \in 0 .. (RandomSteps - 1) }

\* the callers of the turn actions: the player whose turn it is and the next
\* player of the list
Callers ==
  {turn.currentPlayerId, (turn.currentPlayerId % Len(players)) + 1}

\* the property ids a caller passes: the tile on offer, the tile the caller
\* stands on (a property or not) and the first property of the board
PropertyIds(playerId) ==
  ({turn.awaitingPurchase, turn.awaitingUpgrade, players[playerId].position, 1}
     \cap TileIndex)

AddPlayer ==
  IF addPlayerError(Game) # "" THEN Throw("addPlayer")
  ELSE Return("addPlayer", addPlayer(Game))

StartGame ==
  IF startGameError(Game) # "" THEN Throw("startGame")
  ELSE Return("startGame", startGame(Game))

\* the engine reads the two dice only through their sum and their equality,
\* so the rolls are taken with the smaller die first
RollDice(playerId) ==
  IF rollDiceError(Game, playerId) # "" THEN Throw("rollDice")
  ELSE /\ turnNumber <= horizon
       /\ \E d1 \in Die : \E d2 \in { d \in Die : d1 <= d } :
            \E sh \in IF Len(deck) = 0 THEN shuffle(EVENT_CARDS) ELSE {deck} :
              Return("rollDice", rollDice(Game, playerId, d1, d2, sh))

BuyProperty(playerId, propertyId) ==
  IF buyPropertyError(Game, playerId, propertyId) # "" THEN Throw("buyProperty")
  ELSE Return("buyProperty", buyProperty(Game, playerId, propertyId))

PassPurchase(playerId) ==
  IF passPurchaseError(Game, playerId) # "" THEN Throw("passPurchase")
  ELSE Return("passPurchase", passPurchase(Game, playerId))

UpgradeProperty(playerId, propertyId) ==
  IF upgradePropertyError(Game, playerId, propertyId) # "" THEN Throw("upgradeProperty")
  ELSE Return("upgradeProperty", upgradeProperty(Game, playerId, propertyId))

PayBail(playerId) ==
  IF payBailError(Game, playerId) # "" THEN Throw("payBail")
  ELSE Return("payBail", payBail(Game, playerId))

EndTurn(playerId) ==
  IF endTurnError(Game, playerId) # "" THEN Throw("endTurn")
  ELSE Return("endTurn", endTurn(Game, playerId))

FinishByNetWorth ==
  IF finishByNetWorthError(Game) # "" THEN Throw("finishByNetWorth")
  ELSE Return("finishByNetWorth", finishByNetWorth(Game))

\* ------------------------------------------------------------------------
\* The transport's handlers of the messages it guards before calling the
\* engine (server/src/index.ts).  A connection stands for the player id of
\* its session; NoPlayer is a connection that has joined no room.
\* ------------------------------------------------------------------------

\* handleWithRoom: the error sent to a connection without a session
handleWithRoomError(playerId) ==
  IF playerId = NoPlayer THEN "Voce nao esta em uma sala" ELSE ""

startGameMessageErrorNoHostCheck(g, playerId) ==
  IF handleWithRoomError(playerId) # "" THEN handleWithRoomError(playerId)
  ELSE startGameError(g)

\* case "startGame"
startGameMessageError(g, playerId) ==
  IF handleWithRoomError(playerId) # "" THEN handleWithRoomError(playerId)
  ELSE IF hostId # playerId THEN "Apenas o anfitriao pode iniciar."
  ELSE startGameError(g)

\* case "finishGame"
finishGameMessageError(g, playerId) ==
  IF handleWithRoomError(playerId) # "" THEN handleWithRoomError(playerId)
  ELSE IF hostId # playerId THEN "Apenas o anfitriao pode finalizar."
  ELSE finishByNetWorthError(g)

\* handleJoinRoom, for a name no player of the room has
joinRoomMessageError(g) ==
  IF g.status # "lobby" THEN "Partida ja iniciada" ELSE addPlayerError(g)

\* the connections that send the guarded messages
Senders == PlayerIds \cup {NoPlayer}

StartGameMessage(playerId) ==
  IF startGameMessageError(Game, playerId) # "" THEN Throw("startGameMessage")
  ELSE Return("startGameMessage", startGame(Game))

FinishGameMessage(playerId) ==
  IF finishGameMessageError(Game, playerId) # "" THEN Throw("finishGameMessage")
  ELSE Return("finishGameMessage", finishByNetWorth(Game))

JoinRoomMessage ==
  IF joinRoomMessageError(Game) # "" THEN Throw("joinRoomMessage")
  ELSE Return("joinRoomMessage", addPlayer(Game))

Next ==
  \/ AddPlayer
  \/ StartGame
  \/ \E p \in Callers : RollDice(p)
  \/ \E p \in Callers : \E t \in PropertyIds(p) : BuyProperty(p, t)
  \/ \E p \in Callers : PassPurchase(p)
  \/ \E p \in Callers : \E t \in PropertyIds(p) : UpgradeProperty(p, t)
  \/ \E p \in Callers : PayBail(p)
  \/ \E p \in Callers : EndTurn(p)
  \/ FinishByNetWorth
  \/ \E p \in Senders : StartGameMessage(p)
  \/ \E p \in Senders : FinishGameMessage(p)
  \/ JoinRoomMessage

Spec == Init /\ [][Next]_vars

\* ------------------------------------------------------------------------
\* sanitizeSettings as a function of the override of a createRoom message:
\* settings holds the override of the message, then what the constructor
\* makes of it.
\* ------------------------------------------------------------------------

\* what a field of the override can hold, for a field clamped to min..max
OverrideValues(min, max) ==
  {JsMissing, JsUndefined, JsNaN, JsNull, JsString}
    \cup { JsNumber(n) : n \in {min - 1, min, max, max + 1} }

Overrides ==
  [startingCash   : OverrideValues(500, 4000),
   passStartBonus : OverrideValues(100, 500),
   maxPlayers     : OverrideValues(2, 12)]

InitSettings ==
  /\ settings \in Overrides
  /\ status = "lobby"
  /\ players = << >>
  /\ tiles = cloneBoard
  /\ turn = newTurn(hostId)
  /\ turnNumber = 1
  /\ deck = << >>
  /\ winnerId = NoPlayer
  /\ last = [op |-> "createRoom", ok |-> TRUE]
  /\ horizon = 0
  /\ NoTransport

SanitizeSettings ==
  /\ last.op = "createRoom"
  /\ settings' = sanitizeSettings(settings)
  /\ last' = [op |-> "sanitizeSettings", ok |-> TRUE]
  /\ UNCHANGED <<status, players, tiles, turn, turnNumber, deck, winnerId, horizon>>
  /\ UNCHANGED transportVars

NextSettings == SanitizeSettings

SettingsSpec == InitSettings /\ [][NextSettings]_vars

\* ------------------------------------------------------------------------
\* The room: the engine, its registries and the connections' handlers
\* ------------------------------------------------------------------------

\* Map.prototype.set and Map.prototype.delete
MapSet(f, k, v) == [x \in (DOMAIN f) \cup {k} |-> IF x = k THEN v ELSE f[x]]

MapDelete(f, k) == [x \in (DOMAIN f) \ {k} |-> f[x]]

\* the room and the connections as one value.  PlayerState.disconnected is
\* kept beside the player records: only reconnect, handleJoinRoom and the
\* close handler write it and only the listing and handleJoinRoom read it
Room ==
  [game |-> Game, session |-> session, connections |-> connections,
   readyState |-> readyState, disconnected |-> disconnected, sent |-> sent]

\* nothing sent yet: the state in which a handler starts
Handling(r) == [r EXCEPT !.sent = [ws \in Sockets |-> << >>]]

safeSend(r, ws, type) ==
  IF r.readyState[ws] = "OPEN" THEN [r EXCEPT !.sent[ws] = Append(@, type)] ELSE r

\* one message for every entry of room.connections whose connection is open
broadcast(r, type) ==
  LET entries(ws) == { p \in DOMAIN r.connections : r.connections[p] = ws }
  IN [r EXCEPT !.sent =
        [ws \in Sockets |->
           IF r.readyState[ws] = "OPEN"
           THEN r.sent[ws] \o [i \in 1 .. Cardinality(entries(ws)) |-> type]
           ELSE r.sent[ws]]]

broadcastState(r) == broadcast(r, "state")

\* GET /rooms for the one room: the summaries after the map and the filter
roomsListingKeepsFinished(r) ==
  LET listed == SelectSeq([i \in 1 .. Len(r.game.players) |-> i],
                          LAMBDA p : p \in DOMAIN r.connections /\ p \notin r.disconnected)
      summary == [status |-> r.game.status,
                  playerCount |-> Len(r.game.players),
                  connectedCount |-> Len(listed),
                  players |-> listed]
  IN SelectSeq(<< summary >>, LAMBDA room : room.connectedCount > 0)

roomsListing(r) ==
  LET listed == SelectSeq([i \in 1 .. Len(r.game.players) |-> i],
                          LAMBDA p : p \in DOMAIN r.connections /\ p \notin r.disconnected)
      summary == [status |-> r.game.status,
                  playerCount |-> Len(r.game.players),
                  connectedCount |-> Len(listed),
                  players |-> listed]
  IN SelectSeq(<< summary >>,
               LAMBDA room : room.connectedCount > 0 /\ room.status # "finished")

\* engine.reconnect(playerId)
reconnectError(g, playerId) ==
  IF playerId \notin DOMAIN g.players THEN "Jogador desconhecido" ELSE ""

reconnect(flags, playerId) == flags \ {playerId}

\* a message: its type and the fields the handlers read.  roomKnown tells
\* whether rooms has message.roomId; playerName is the player who has the
\* name, or NoPlayer for a name nobody has
Message(type, roomKnown, playerName, playerId, propertyId) ==
  [type |-> type, roomKnown |-> roomKnown, playerName |-> playerName,
   playerId |-> playerId, propertyId |-> propertyId]

\* the player of the connection, as handleWithRoom reads it from session
sessionPlayer(r, ws) == IF ws \in DOMAIN r.session THEN r.session[ws] ELSE NoPlayer

\* handleJoinRoom: the error it sends or that addPlayer throws, "" if none
handleJoinRoomError(r, ws, m) ==
  LET existing == m.playerName
      isConnected == /\ existing \in DOMAIN r.connections
                     /\ r.readyState[r.connections[existing]] = "OPEN"
                     /\ existing \notin r.disconnected
  IN IF ~m.roomKnown THEN "Sala nao encontrada"
     ELSE IF r.game.status # "lobby" THEN "Partida ja iniciada"
     ELSE IF existing # NoPlayer
     THEN IF isConnected THEN "Ja existe um jogador com este nome na sala." ELSE ""
     ELSE addPlayerError(r.game)

handleJoinRoom(r, ws, m) ==
  IF handleJoinRoomError(r, ws, m) # "" THEN safeSend(r, ws, "error")
  ELSE LET existing == m.playerName
           r1 == IF existing # NoPlayer
                 THEN [r EXCEPT !.disconnected = @ \ {existing}]
                 ELSE [r EXCEPT !.game = addPlayer(@)]
           player == IF existing # NoPlayer THEN existing ELSE Len(r1.game.players)
           r2 == [r1 EXCEPT !.connections = MapSet(@, player, ws),
                            !.session = MapSet(@, ws, player)]
       IN broadcastState(safeSend(r2, ws, "joined"))

handleReconnectError(r, ws, m) ==
  IF ~m.roomKnown THEN "Sala nao encontrada" ELSE reconnectError(r.game, m.playerId)

handleReconnect(r, ws, m) ==
  IF handleReconnectError(r, ws, m) # "" THEN safeSend(r, ws, "error")
  ELSE LET r1 == [r EXCEPT !.disconnected = reconnect(@, m.playerId),
                           !.connections = MapSet(@, m.playerId, ws),
                           !.session = MapSet(@, ws, m.playerId)]
       IN broadcastState(safeSend(r1, ws, "joined"))

\* the messages handleMessage passes to handleWithRoom
RoomMessages ==
  {"startGame", "finishGame", "rollDice", "buyProperty", "passPurchase", "payBail",
   "endTurn"}

\* the error of the callback of a case of handleMessage, "" if it returns
callbackError(g, m, playerId) ==
  CASE m.type = "startGame" ->
         IF hostId # playerId THEN "Apenas o anfitriao pode iniciar."
         ELSE startGameError(g)
    [] m.type = "finishGame" ->
         IF hostId # playerId THEN "Apenas o anfitriao pode finalizar."
         ELSE finishByNetWorthError(g)
    [] m.type = "rollDice" -> rollDiceError(g, playerId)
    [] m.type = "buyProperty" -> buyPropertyError(g, playerId, m.propertyId)
    [] m.type = "passPurchase" -> passPurchaseError(g, playerId)
    [] m.type = "payBail" -> payBailError(g, playerId)
    [] m.type = "endTurn" -> endTurnError(g, playerId)

\* the engine call of the callback; rnd holds what the dice and shuffle
\* return during the call
callback(g, m, playerId, rnd) ==
  CASE m.type = "startGame" -> startGame(g)
    [] m.type = "finishGame" -> finishByNetWorth(g)
    [] m.type = "rollDice" -> rollDice(g, playerId, rnd.d1, rnd.d2, rnd.sh)
    [] m.type = "buyProperty" -> buyProperty(g, playerId, m.propertyId)
    [] m.type = "passPurchase" -> passPurchase(g, playerId)
    [] m.type = "payBail" -> payBail(g, playerId)
    [] m.type = "endTurn" -> endTurn(g, playerId)

handleWithRoomMessageError(r, ws, m) ==
  IF handleWithRoomError(sessionPlayer(r, ws)) # ""
  THEN handleWithRoomError(sessionPlayer(r, ws))
  ELSE callbackError(r.game, m, sessionPlayer(r, ws))

\* handleWithRoom reporting a failure to the whole room
handleWithRoomErrorToAll(r, ws, m, rnd) ==
  IF handleWithRoomMessageError(r, ws, m) # "" THEN broadcast(r, "error")
  ELSE LET r1 == [r EXCEPT !.game = callback(@, m, sessionPlayer(r, ws), rnd)]
       IN IF m.type = "rollDice"
          THEN broadcastState(broadcast(r1, "dice"))
          ELSE broadcastState(r1)

\* handleWithRoom with the callback of the message's case
handleWithRoom(r, ws, m, rnd) ==
  IF handleWithRoomMessageError(r, ws, m) # "" THEN safeSend(r, ws, "error")
  ELSE LET r1 == [r EXCEPT !.game = callback(@, m, sessionPlayer(r, ws), rnd)]
       IN IF m.type = "rollDice"
          THEN broadcastState(broadcast(r1, "dice"))
          ELSE broadcastState(r1)

\* the error a message is answered with, "" if its handler succeeds
handleMessageError(r, ws, m) ==
  CASE m.type = "joinRoom" -> handleJoinRoomError(r, ws, m)
    [] m.type = "reconnect" -> handleReconnectError(r, ws, m)
    [] m.type \in RoomMessages -> handleWithRoomMessageError(r, ws, m)
    [] OTHER -> "Acao nao suportada"

\* ws.on("message"): handleMessage, an exception answered with an error
handleMessage(r, ws, m, rnd) ==
  CASE m.type = "joinRoom" -> handleJoinRoom(r, ws, m)
    [] m.type = "reconnect" -> handleReconnect(r, ws, m)
    [] m.type \in RoomMessages -> handleWithRoom(r, ws, m, rnd)
    [] OTHER -> safeSend(r, ws, "error")

\* ws.on("close") that also passes the turn of the player who left
onCloseEndsTurn(r, ws) ==
  LET closed == [r EXCEPT !.readyState[ws] = "CLOSED"]
  IN IF ws \notin DOMAIN r.session THEN closed
     ELSE LET playerId == r.session[ws]
              r1 == [closed EXCEPT !.disconnected = @ \cup {playerId},
                                   !.connections = MapDelete(@, playerId),
                                   !.game = IF @.status = "active"
                                               /\ @.turn.currentPlayerId = playerId
                                            THEN advanceTurn(@) ELSE @]
          IN [broadcastState(r1) EXCEPT !.session = MapDelete(@, ws)]

\* ws.on("close")
onClose(r, ws) ==
  LET closed == [r EXCEPT !.readyState[ws] = "CLOSED"]
  IN IF ws \notin DOMAIN r.session THEN closed
     ELSE LET playerId == r.session[ws]
              r1 == [closed EXCEPT !.disconnected = @ \cup {playerId},
                                   !.connections = MapDelete(@, playerId)]
          IN [broadcastState(r1) EXCEPT !.session = MapDelete(@, ws)]

RoomBecomes(r) ==
  /\ status' = r.game.status
  /\ players' = r.game.players
  /\ tiles' = r.game.tiles
  /\ turn' = r.game.turn
  /\ turnNumber' = r.game.turnNumber
  /\ deck' = r.game.deck
  /\ winnerId' = r.game.winnerId
  /\ settings' = r.game.settings
  /\ session' = r.session
  /\ connections' = r.connections
  /\ readyState' = r.readyState
  /\ disconnected' = r.disconnected
  /\ sent' = r.sent

\* the message m arrives on the open connection ws.  A rejected message
\* changes nothing but what was sent, so the exploration goes on from the
\* state before it
OnMessage(ws, m, rnd) ==
  /\ last.ok
  /\ readyState[ws] = "OPEN"
  /\ RoomBecomes(handleMessage(Handling(Room), ws, m, rnd))
  /\ last' = [op |-> m.type, ok |-> handleMessageError(Room, ws, m) = ""]
  /\ sender' = ws
  /\ UNCHANGED horizon

NoRandom == [d1 |-> 0, d2 |-> 0, sh |-> << >>]

JoinRoom(ws, roomKnown, playerName) ==
  OnMessage(ws, Message("joinRoom", roomKnown, playerName, NoPlayer, NoTile), NoRandom)

Reconnect(ws, roomKnown, playerId) ==
  OnMessage(ws, Message("reconnect", roomKnown, NoPlayer, playerId, NoTile), NoRandom)

RoomMessage(ws, type) ==
  OnMessage(ws, Message(type, TRUE, NoPlayer, NoPlayer, NoTile), NoRandom)

BuyPropertyMessage(ws, propertyId) ==
  OnMessage(ws, Message("buyProperty", TRUE, NoPlayer, NoPlayer, propertyId), NoRandom)

\* the rolls of the room: the first die shows the least face, the second
\* the least or the greatest, so a double and a roll that is none
RoomRolls == { << rollDie(0), d2 >> : d2 \in {rollDie(0), rollDie(RandomSteps - 1)} }

RollDiceMessage(ws) ==
  LET m == Message("rollDice", TRUE, NoPlayer, NoPlayer, NoTile)
  IN IF handleMessageError(Room, ws, m) # "" THEN OnMessage(ws, m, NoRandom)
     ELSE /\ turnNumber <= horizon
          /\ \E dice \in RoomRolls :
               \E sh \in IF Len(deck) = 0 THEN shuffle(EVENT_CARDS) ELSE {deck} :
                 OnMessage(ws, m, [d1 |-> dice[1], d2 |-> dice[2], sh |-> sh])

\* a message type handleMessage has no case for
UnsupportedMessage(ws) ==
  OnMessage(ws, Message("upgradeProperty", TRUE, NoPlayer, NoPlayer, 1), NoRandom)

\* the connection stops being open; its close event is still to come
SocketCloses(ws) ==
  /\ last.ok
  /\ readyState[ws] = "OPEN"
  /\ readyState' = [readyState EXCEPT ![ws] = "CLOSING"]
  /\ sent' = [s \in Sockets |-> << >>]
  /\ sender' = ws
  /\ last' = [op |-> "closing", ok |-> TRUE]
  /\ UNCHANGED <<gameVars, horizon, session, connections, disconnected>>

\* the close event of the connection is handled
OnClose(ws) ==
  /\ last.ok
  /\ readyState[ws] = "CLOSING"
  /\ RoomBecomes(onClose(Handling(Room), ws))
  /\ last' = [op |-> "close", ok |-> TRUE]
  /\ sender' = ws
  /\ UNCHANGED horizon

\* the room after handleCreateRoom on the first connection, the others open
\* and in no room
InitRoom ==
  /\ StateIs(construct(GameD.input, GameD.deck))
  /\ session = (1 :> hostId)
  /\ connections = (hostId :> 1)
  /\ readyState = [ws \in Sockets |-> "OPEN"]
  /\ disconnected = {}
  /\ sent = [ws \in Sockets |-> IF ws = 1 THEN << "roomCreated", "joined", "state" >>
                                ELSE << >>]
  /\ sender = 1
  /\ last = [op |-> "createRoom", ok |-> TRUE]
  /\ horizon = turnNumber + MaxTurns - 1

NextRoom ==
  \/ \E ws \in Sockets : \E roomKnown \in BOOLEAN :
       \E playerName \in PlayerIds \cup {NoPlayer} : JoinRoom(ws, roomKnown, playerName)
  \/ \E ws \in Sockets : \E roomKnown \in BOOLEAN :
       \E playerId \in 1 .. (Len(players) + 1) : Reconnect(ws, roomKnown, playerId)
  \/ \E ws \in Sockets :
       \E type \in RoomMessages \ {"rollDice", "buyProperty"} : RoomMessage(ws, type)
  \/ \E ws \in Sockets :
       \E propertyId \in {turn.awaitingPurchase, 1} \cap TileIndex :
         BuyPropertyMessage(ws, propertyId)
  \/ \E ws \in Sockets : RollDiceMessage(ws)
  \/ \E ws \in Sockets : UnsupportedMessage(ws)
  \/ \E ws \in Sockets : SocketCloses(ws)
  \/ \E ws \in Sockets : OnClose(ws)

RoomSpec == InitRoom /\ [][NextRoom]_vars

\* ------------------------------------------------------------------------
\* Properties
\* ------------------------------------------------------------------------

alive == { i \in PlayerIds : ~players[i].bankrupt }

current == turn.currentPlayerId

Returned(op) == last'.op = op /\ last'.ok

\* C1: victory is detected at once: no state of a started game has exactly
\* one solvent player without the game being finished and that player being
\* the winner.
C1_VictoryImmediate ==
  (status # "lobby" /\ Cardinality(alive) = 1)
    => (status = "finished" /\ winnerId \in alive)

\* game A, turn 14: player 3 is bankrupt, player 1 could not pay the forced
\* bail, and the roll left the game finished with player 2 the winner
C1_Witness ==
  /\ status = "finished"
  /\ turnNumber = 14
  /\ last = [op |-> "rollDice", ok |-> TRUE]
  /\ players[1].bankrupt /\ players[3].bankrupt
  /\ winnerId = 2

\* C2: a player whose money is below 0 is bankrupt, out of jail and owns no
\* property, in every state (so the charge that took the money below 0 did
\* all of it in the same operation); a bankrupt player owns no property; the
\* bankrupt flag never goes back to false.
C2_BankruptcyAtomic ==
  /\ [](\A p \in PlayerIds :
          /\ players[p].money < 0 => players[p].bankrupt
          /\ players[p].bankrupt =>
               /\ players[p].inJailTurns = 0
               /\ \A i \in PropertyIndex : tiles[i].ownerId # p)
  /\ [][\A p \in PlayerIds : players[p].bankrupt => players'[p].bankrupt]_vars

\* game B, turn 25: player 1 (no cash, last attempt) went bankrupt on the
\* forced bail and tile 9 went back to the bank; two players are left
C2_Witness ==
  /\ last = [op |-> "rollDice", ok |-> TRUE]
  /\ turnNumber = 25
  /\ players[1].bankrupt /\ players[1].money = 0 - BAIL_COST
  /\ players[1].inJailTurns = 0
  /\ ~players[2].bankrupt /\ ~players[3].bankrupt
  /\ status = "active"
  /\ tiles[9].ownerId = NoPlayer

\* the first solvent player after playerId in list order, wrapping around
IsNextSolvent(playerId, nextId) ==
  LET n == Len(players)
      dist(a, b) == IF b > a THEN b - a ELSE b - a + n
  IN /\ nextId \in PlayerIds
     /\ ~players[nextId].bankrupt
     /\ \A q \in PlayerIds :
          (q # playerId /\ dist(playerId, q) < dist(playerId, nextId))
            => players[q].bankrupt

\* C3: a successful endTurn hands the turn to the first solvent player after
\* the current one in list order, wrapping around; the player it selects is
\* never a bankrupt one.
C3_EndTurnNextSolvent ==
  [][Returned("endTurn") =>
       /\ IsNextSolvent(current, turn'.currentPlayerId)
       /\ ~players'[turn'.currentPlayerId].bankrupt]_vars

\* game A, turn 11: player 2 rolled 1 + 1 to tile 18, passed and ended the
\* turn; bankrupt player 3 was skipped and the turn wrapped around to player 1
C3_Witness ==
  /\ last = [op |-> "endTurn", ok |-> TRUE]
  /\ turnNumber = 12
  /\ players[2].position = 18
  /\ players[3].bankrupt
  /\ current = 1

\* C4: while a purchase is pending or the dice have not been rolled in this
\* turn, every endTurn throws and leaves the turn (current player, rolled,
\* pending decisions) and the turn counter as they were.
C4_EndTurnRejected ==
  [][(last'.op = "endTurn" /\ status = "active"
        /\ (turn.awaitingPurchase # NoTile \/ ~turn.rolled))
       => (~last'.ok /\ UNCHANGED <<turn, turnNumber>>)]_vars

\* player 1 paid bail, has not rolled, and the endTurn that followed threw
C4_Witness ==
  /\ last = [op |-> "endTurn", ok |-> FALSE]
  /\ status = "active"
  /\ current = 1
  /\ players[1].position = jailIndex /\ players[1].inJailTurns = 0
  /\ players[1].money = 1200 - BAIL_COST
  /\ ~turn.rolled

\* C5 as claimed: while an upgrade offer is open (awaitingUpgrade set) every
\* endTurn throws, as it does while a purchase is pending.
C5_UpgradeBlocksEndTurn ==
  [][(last'.op = "endTurn" /\ status = "active" /\ turn.awaitingUpgrade # NoTile)
       => ~last'.ok]_vars

\* C5 amended: only a pending purchase blocks the end of the turn.  While
\* awaitingPurchase is set every endTurn throws; while awaitingUpgrade is
\* set the dice are rolled and no purchase is pending, and the endTurn of
\* the current player returns, advances the turn and drops the offer.
C5_OnlyPurchaseBlocksEndTurn ==
  [][/\ (last'.op = "endTurn" /\ status = "active" /\ turn.awaitingPurchase # NoTile)
          => ~last'.ok
     /\ (status = "active" /\ turn.awaitingUpgrade # NoTile)
          => /\ turn.rolled /\ turn.awaitingPurchase = NoTile
             /\ EndTurn(current) =>
                  /\ last'.ok
                  /\ turnNumber' = turnNumber + 1
                  /\ turn'.awaitingUpgrade = NoTile
                  /\ turn'.currentPlayerId # current]_vars

\* game B, turn 7: player 1 left jail on 1 + 1 onto their own tile 9 (level
\* 1, upgrade on offer), did not upgrade, and their endTurn returned
C5_Witness ==
  /\ last = [op |-> "endTurn", ok |-> TRUE]
  /\ turnNumber = 8
  /\ current = 2
  /\ players[1].position = 9
  /\ players[1].money = 1200
  /\ tiles[9] = [ownerId |-> 1, level |-> 1]

\* C6: a roll that lands the current player on a property nobody owns sets
\* awaitingPurchase to that tile; a buyProperty that returns gives the tile
\* on offer to the current player at level 1, takes exactly its price from
\* them, changes no other tile or player and clears awaitingPurchase; a
\* passPurchase that returns clears awaitingPurchase and changes no tile and
\* no player.
C6_PurchaseOffer ==
  [][/\ Returned("rollDice") =>
          LET pos == players'[current].position
          IN (/\ pos # players[current].position
              /\ pos \in PropertyIndex
              /\ tiles[pos].ownerId = NoPlayer)
               => turn'.awaitingPurchase = pos
     /\ Returned("buyProperty") =>
          LET t == turn.awaitingPurchase
          IN /\ t \in PropertyIndex
             /\ tiles' = [tiles EXCEPT ![t] = [ownerId |-> current, level |-> 1]]
             /\ players' = [players EXCEPT ![current].money = @ - TilePrice(t)]
             /\ turn'.awaitingPurchase = NoTile
     /\ Returned("passPurchase") =>
          /\ turn.awaitingPurchase # NoTile
          /\ turn'.awaitingPurchase = NoTile
          /\ tiles' = tiles
          /\ players' = players]_vars

\* the host rolled 1 + 1 from the start tile and bought tile 2 for 240
C6_Witness ==
  /\ last = [op |-> "buyProperty", ok |-> TRUE]
  /\ turnNumber = 1
  /\ turn.dice.values = <<1, 1>>
  /\ players[1].position = 2
  /\ tiles[2] = [ownerId |-> 1, level |-> 1]
  /\ players[1].money = 500 - 240
  /\ turn.awaitingPurchase = NoTile

\* the current player is jailed and the roll that returns is a double
JailedDouble ==
  /\ Returned("rollDice")
  /\ players[current].inJailTurns > 0
  /\ turn'.dice.values[1] = turn'.dice.values[2]

\* the tile a roll takes the current player to
Destination == (players[current].position + turn'.dice.total) % tilesCount

\* C7 as claimed: after any double rolled while jailed the jail counter is 0.
C7_DoubleAlwaysClearsJail ==
  [][JailedDouble => players'[current].inJailTurns = 0]_vars

\* C7 amended: a double rolled while jailed frees the player and moves them
\* off the jail tile with the jail counter at 0, except when the move ends
\* on the go-to-jail tile (6 + 6 from the jail tile): then the player is back
\* on the jail tile with the counter at its maximum.
C7_DoubleLeavesJail ==
  [][JailedDouble =>
       IF TileType(Destination) = "go-to-jail"
       THEN /\ players'[current].position = jailIndex
            /\ players'[current].inJailTurns = MAX_JAIL_TURNS
       ELSE /\ players'[current].position # jailIndex
            /\ players'[current].inJailTurns = 0]_vars

\* game A, turn 10: player 1 rolled 1 + 1 in jail and stands free on tile 9,
\* which is on offer
C7_Witness ==
  /\ last = [op |-> "rollDice", ok |-> TRUE]
  /\ turnNumber = 10
  /\ current = 1
  /\ turn.dice.values = <<1, 1>>
  /\ players[1].position = jailIndex + 2
  /\ players[1].inJailTurns = 0
  /\ turn.awaitingPurchase = jailIndex + 2

\* the current player is on the last escape attempt and the roll that
\* returns is no double
ForcedBail ==
  /\ Returned("rollDice")
  /\ players[current].inJailTurns = 1
  /\ turn'.dice.values[1] # turn'.dice.values[2]

\* the player was charged the bail, moved to the destination and the tile
\* there was resolved (a card drawn on an event tile, the tax paid, the
\* property put on offer, the rent paid to a solvent owner)
MovedAfterBail ==
  LET d == Destination
      paid == players[current].money - BAIL_COST
      owner == IF d \in PropertyIndex THEN tiles[d].ownerId ELSE NoPlayer
  IN /\ TileType(d) # "event" => players'[current].position = d
     /\ TileType(d) = "event" => Len(deck') = Len(deck) - 1 \/ deck = << >>
     /\ TileType(d) = "tax" =>
          players'[current].money = paid - DEFAULT_BOARD[d + 1].amount
     /\ TileType(d) \in {"free", "jail"} => players'[current].money = paid
     /\ (d \in PropertyIndex /\ owner = NoPlayer) =>
          /\ turn'.awaitingPurchase = d
          /\ players'[current].money = paid
     /\ (d \in PropertyIndex /\ owner = current) => players'[current].money = paid
     /\ (d \in PropertyIndex /\ owner \notin {NoPlayer, current}
           /\ ~players[owner].bankrupt) =>
          /\ players'[current].money = paid - propertyRent(d, tiles[d].level)
          /\ players'[owner].money
               = players[owner].money + propertyRent(d, tiles[d].level)

\* C8 as claimed: the forced bail is charged, the jail counter is 0 and the
\* player moves by the roll total to a tile that is resolved.
C8_ForcedBailAlwaysMoves ==
  [][ForcedBail => (players'[current].inJailTurns = 0 /\ MovedAfterBail)]_vars

\* C8 amended: on the last attempt a non-double charges the bail of 50 and
\* leaves the jail counter at 0; a player who had at least 50 then moves by
\* the roll total and the tile is resolved; a player who had less goes
\* bankrupt, stays on the jail tile, and nothing is resolved.
C8_ForcedBail ==
  [][ForcedBail =>
       /\ players'[current].inJailTurns = 0
       /\ IF players[current].money >= BAIL_COST
          THEN MovedAfterBail
          ELSE /\ players'[current].bankrupt
               /\ players'[current].money = players[current].money - BAIL_COST
               /\ players'[current].position = players[current].position
               /\ turn'.awaitingPurchase = NoTile
               /\ deck' = deck]_vars

\* game B, turn 21: player 3 (1400, last attempt) rolled 1 + 4, paid the
\* bail of 50 and the rent of 110 on tile 12 of player 2
C8_Witness ==
  /\ last = [op |-> "rollDice", ok |-> TRUE]
  /\ turnNumber = 21
  /\ current = 3
  /\ turn.dice.values = <<1, 4>>
  /\ players[3].position = 12
  /\ players[3].inJailTurns = 0
  /\ players[3].money = 1400 - BAIL_COST - 110
  /\ players[2].money = 500 + 110

C10_OneRollPerTurn ==
  [][/\ (last'.op = "rollDice" /\ turn.rolled) => ~last'.ok
     /\ (turn.rolled /\ ~turn'.rolled) =>
          /\ Returned("endTurn")
          /\ turnNumber' = turnNumber + 1]_vars

\* a second rollDice in the same turn threw
C10_Witness ==
  /\ last = [op |-> "rollDice", ok |-> FALSE]
  /\ status = "active"
  /\ turn.rolled
  /\ turn.awaitingPurchase = NoTile

\* ------------------------------------------------------------------------
\* Rejections, the status and the lobby
\* ------------------------------------------------------------------------

\* the six actions of a turn, which start with ensureActivePlayer
TurnOps ==
  {"rollDice", "buyProperty", "passPurchase", "upgradeProperty", "payBail",
   "endTurn"}

\* every call of the six turn actions by playerId would throw, for each of
\* the property ids a caller passes
AllRejected(playerId) ==
  LET g == Game
  IN /\ rollDiceError(g, playerId) # ""
     /\ passPurchaseError(g, playerId) # ""
     /\ payBailError(g, playerId) # ""
     /\ endTurnError(g, playerId) # ""
     /\ \A t \in PropertyIds(playerId) :
          /\ buyPropertyError(g, playerId, t) # ""
          /\ upgradePropertyError(g, playerId, t) # ""

C12_StatusOneWay ==
  [][/\ status = "active" => status' # "lobby"
     /\ status = "finished" => (status' = "finished" /\ winnerId' = winnerId)
     /\ (status = "finished" /\ last'.op = "finishByNetWorth") =>
          (last'.ok /\ UNCHANGED gameVars)]_vars

\* game C: the game was finished with 350 each and player 1 the winner, a
\* third player joined with the starting cash, and a repeated
\* finishByNetWorth left player 1 the winner
C12_Witness ==
  /\ last = [op |-> "finishByNetWorth", ok |-> TRUE]
  /\ status = "finished"
  /\ Len(players) = 3
  /\ winnerId = 1
  /\ players[3].money > players[1].money
  /\ \A t \in PropertyIndex : tiles[t].ownerId = NoPlayer

\* C13: the finished status is reached only from active.  A step that makes
\* the status finished starts in an active game, and no step gives a game in
\* lobby a winner.
C13_FinishOnlyFromActive ==
  [][/\ (status # "finished" /\ status' = "finished") => status = "active"
     /\ status = "lobby" => winnerId' = NoPlayer]_vars

\* C14: a startGame called when the status is not lobby or with fewer than
\* two players throws and changes nothing; a startGame that returns makes the
\* status active and the host the current player, with the dice not rolled
\* and neither a purchase nor an upgrade pending.
C14_StartGame ==
  [][last'.op \in {"startGame", "startGameMessage"} =>
       /\ (status # "lobby" \/ Len(players) < 2) =>
            (~last'.ok /\ UNCHANGED gameVars)
       /\ last'.ok =>
            /\ status = "lobby"
            /\ status' = "active"
            /\ turn'.currentPlayerId = hostId
            /\ ~turn'.rolled
            /\ turn'.awaitingPurchase = NoTile
            /\ turn'.awaitingUpgrade = NoTile
            /\ players' = players]_vars

\* the host started the full lobby of a room for two
C14_Witness ==
  /\ last = [op |-> "startGame", ok |-> TRUE]
  /\ status = "active"
  /\ Len(players) = 2
  /\ settings.maxPlayers = 2
  /\ turn.currentPlayerId = hostId
  /\ ~turn.rolled

\* C15: an addPlayer called when the number of players has reached
\* settings.maxPlayers throws and changes nothing, and the number of players
\* never exceeds settings.maxPlayers; an addPlayer that returns appends one
\* player with the starting cash, position 0, no jail turns and not bankrupt
\* to the end of the list and leaves the players before it as they were.
C15_AddPlayer ==
  [][/\ Len(players) <= settings.maxPlayers
     /\ Len(players') <= settings'.maxPlayers
     /\ last'.op \in {"addPlayer", "joinRoomMessage"} =>
          /\ Len(players) >= settings.maxPlayers =>
               (~last'.ok /\ UNCHANGED gameVars)
          /\ last'.ok =>
               /\ Len(players') = Len(players) + 1
               /\ SubSeq(players', 1, Len(players)) = players
               /\ players'[Len(players')] =
                    [money |-> settings.startingCash, position |-> 0,
                     inJailTurns |-> 0, bankrupt |-> FALSE]]_vars

\* the second player joined the lobby of a room for two and filled it
C15_Witness ==
  /\ last = [op |-> "addPlayer", ok |-> TRUE]
  /\ status = "lobby"
  /\ Len(players) = 2
  /\ settings.maxPlayers = 2
  /\ players[2].money = settings.startingCash
  /\ players[2].position = 0

\* C16: players join only in lobby.  No step of a game whose status is
\* active or finished changes the number of players, so the list of players
\* is fixed from startGame on.
C16_JoinOnlyInLobby ==
  [][status # "lobby" => Len(players') = Len(players)]_vars

\* ------------------------------------------------------------------------
\* The end by net worth, the host's messages, rent and upgrades
\* ------------------------------------------------------------------------

\* the cash of player p plus the asset value of the properties p owns
RECURSIVE AssetsUpTo(_, _)
AssetsUpTo(p, i) ==
  IF i < 0 THEN 0
  ELSE AssetsUpTo(p, i - 1) +
       (IF i \in PropertyIndex /\ tiles[i].ownerId = p
          THEN propertyAssetValue(i, tiles[i].level) ELSE 0)

Worth(p) == players[p].money + AssetsUpTo(p, tilesCount - 1)

\* C17: a finishByNetWorth that returns on an unfinished game makes the
\* status finished and the winner a player who is not bankrupt, whose net
\* worth is at least that of every other player who is not bankrupt, and who
\* comes first in the list among the players tied with that net worth.
C17_FinishByNetWorth ==
  [][(last'.op \in {"finishByNetWorth", "finishGameMessage"} /\ last'.ok
        /\ status # "finished") =>
       /\ status' = "finished"
       /\ winnerId' \in alive
       /\ \A b \in alive :
            /\ Worth(winnerId') >= Worth(b)
            /\ Worth(winnerId') = Worth(b) => winnerId' <= b
       /\ players' = players
       /\ tiles' = tiles]_vars

\* the winner by net worth has less cash than another solvent player, owns
\* a property, and is tied with a player later in the list
C17_Witness ==
  /\ last = [op |-> "finishByNetWorth", ok |-> TRUE]
  /\ status = "finished"
  /\ \E b \in alive : players[b].money > players[winnerId].money
  /\ \E b \in alive : b > winnerId /\ Worth(b) = Worth(winnerId)

\* C18: host-only actions.  A start-game or finish-game message of a
\* connection whose player is not the host, or that has no player, is
\* rejected, and a rejected message leaves the status, the winner and the
\* rest of the game unchanged; an accepted start-game message starts a
\* lobby and an accepted finish-game message leaves the game finished with
\* a solvent winner.
C18_HostOnly ==
  [][/\ \A p \in Senders \ {hostId} :
          /\ startGameMessageError(Game, p) # ""
          /\ finishGameMessageError(Game, p) # ""
     /\ last'.op \in {"startGameMessage", "finishGameMessage"} =>
          /\ ~last'.ok => (status' = status /\ winnerId' = winnerId
                             /\ UNCHANGED gameVars)
          /\ (last'.ok /\ last'.op = "startGameMessage") =>
               (status = "lobby" /\ status' = "active")
          /\ (last'.ok /\ last'.op = "finishGameMessage") =>
               (status' = "finished" /\ winnerId' \in alive)]_vars

\* a start-game message was rejected in a lobby of two players, where the
\* host's message is accepted
C18_Witness ==
  /\ last = [op |-> "startGameMessage", ok |-> FALSE]
  /\ status = "lobby"
  /\ Len(players) = 2
  /\ startGameError(Game) = ""

\* the tile the current player stands on after the roll
Landing == players'[current].position

\* a rollDice returned and left the current player on a property that
\* another player, not bankrupt, owned before the roll
LandedOnRival ==
  /\ Returned("rollDice")
  /\ status = "active"
  /\ Landing \in PropertyIndex
  /\ tiles[Landing].ownerId \notin {NoPlayer, current}
  /\ ~players[tiles[Landing].ownerId].bankrupt

\* the rent of the tile at its level before the roll
Rent == TileBaseRent(Landing) * Max(1, tiles[Landing].level)

\* the roll took a free player straight to the landing tile, without
\* passing the start and without a card
StraightLanding ==
  /\ players[current].inJailTurns = 0
  /\ Landing = players[current].position + turn'.dice.total

\* C19: rent transfer.  When a roll leaves the current player on a property
\* owned by another player who is not bankrupt, the owner's money grows by
\* the rent of the tile's level, which is positive, also when the visitor
\* goes bankrupt; the visitor is bankrupt after the roll exactly if their
\* money is negative; and on a straight landing the visitor's money falls
\* by the same rent, so the sum of the two is unchanged.
C19_RentTransfer ==
  [][LandedOnRival =>
       LET visitor == current
           owner == tiles[Landing].ownerId
       IN /\ Rent > 0
          /\ Rent = propertyRent(Landing, tiles'[Landing].level)
          /\ players'[owner].money = players[owner].money + Rent
          /\ players'[visitor].bankrupt <=> players'[visitor].money < 0
          /\ StraightLanding =>
               /\ players'[visitor].money = players[visitor].money - Rent
               /\ players'[visitor].money + players'[owner].money =
                    players[visitor].money + players[owner].money
          /\ tiles'[Landing].ownerId = owner]_vars

\* a visitor paid a rent above their cash to a solvent owner and is
\* bankrupt, and the owner has the rent
C19_Witness ==
  /\ last = [op |-> "rollDice", ok |-> TRUE]
  /\ players[current].bankrupt
  /\ players[current].money < 0
  /\ players[current].position \in PropertyIndex
  /\ tiles[players[current].position].ownerId \notin {NoPlayer, current}
  /\ players[current].money
       + propertyRent(players[current].position,
                      tiles[players[current].position].level) >= 0

\* the preconditions of an upgrade of tile t by player p
MayUpgrade(p, t) ==
  /\ status = "active"
  /\ p = current
  /\ t \in PropertyIndex
  /\ tiles[t].ownerId = p
  /\ players[p].position = t
  /\ turn.awaitingUpgrade = t
  /\ tiles[t].level < MAX_PROPERTY_LEVEL
  /\ players[p].money >= TilePrice(t) * tiles[t].level

\* a roll left the current player, still in the game, on a property of
\* their own below the maximum level
LandedOnOwn ==
  /\ Returned("rollDice")
  /\ status = "active"
  /\ ~players'[current].bankrupt
  /\ Landing \in PropertyIndex
  /\ tiles[Landing].ownerId = current
  /\ tiles[Landing].level < MAX_PROPERTY_LEVEL

\* C20: upgrade.  A roll sets awaitingUpgrade exactly when it leaves the
\* current player on a property of their own below the maximum level, and
\* then to that tile.  An upgradeProperty returns only for the current
\* player and the tile on offer, which the player owns and stands on, with
\* money of at least price x level; it raises the level by 1, takes
\* price x previous level from the player and clears awaitingUpgrade, so a
\* second upgradeProperty after the same landing throws.
C20_Upgrade ==
  [][/\ LandedOnOwn => turn'.awaitingUpgrade = Landing
     /\ (Returned("rollDice") /\ turn'.awaitingUpgrade # NoTile) =>
          (LandedOnOwn /\ turn'.awaitingUpgrade = Landing)
     /\ last'.op = "upgradeProperty" =>
          \A p \in PlayerIds : \A t \in TileIndex :
            upgradePropertyError(Game, p, t) = "" <=> MayUpgrade(p, t)
     /\ Returned("upgradeProperty") =>
          LET t == turn.awaitingUpgrade
          IN /\ MayUpgrade(current, t)
             /\ tiles'[t].level = tiles[t].level + 1
             /\ tiles'[t].level <= MAX_PROPERTY_LEVEL
             /\ tiles'[t].ownerId = current
             /\ players'[current].money =
                  players[current].money - TilePrice(t) * tiles[t].level
             /\ players'[current].money >= 0
             /\ turn'.awaitingUpgrade = NoTile
             /\ \A u \in TileIndex :
                  upgradePropertyError(upgradeProperty(Game, current, t),
                                       current, u) # ""]_vars

\* game B, turn 13: player 1 rolled a double in jail, landed on tile 9 at
\* level 2, and upgraded it to level 3 with all of their 800
C20_Witness ==
  /\ last = [op |-> "upgradeProperty", ok |-> TRUE]
  /\ current = 1
  /\ players[1].position = 9
  /\ tiles[9] = [ownerId |-> 1, level |-> MAX_PROPERTY_LEVEL]
  /\ players[1].money = 0
  /\ turn.awaitingUpgrade = NoTile
  /\ turn.rolled

\* ------------------------------------------------------------------------
\* Jail transfers, movement, dice and settings
\* ------------------------------------------------------------------------

\* the roll moves the current player: a free player, or a jailed one who
\* rolled a double
RollMoves ==
  /\ Returned("rollDice")
  /\ status = "active"
  /\ \/ players[current].inJailTurns = 0
     \/ turn'.dice.values[1] = turn'.dice.values[2]

\* the bonus of the roll's own move, paid when it reaches or passes the start
RollBonus ==
  IF players[current].position + turn'.dice.total >= tilesCount
  THEN settings.passStartBonus ELSE 0

\* the roll ends on the go-to-jail tile, or on an event tile with a
\* go-to-jail card at the front of the deck
JailByTile == RollMoves /\ TileType(Destination) = "go-to-jail"

JailByCard ==
  /\ RollMoves
  /\ TileType(Destination) = "event"
  /\ Len(deck) > 0
  /\ Head(deck).goToJail

\* C21: going to jail.  A roll that ends on the go-to-jail tile, or that
\* draws a go-to-jail card, leaves the player on the jail tile with
\* inJailTurns = 3; the transfer pays no pass-start bonus and changes no
\* money (the player has what the roll's own move gave), no tile changes, no
\* purchase or upgrade is pending, and the turn is still the player's, with
\* the dice rolled and endTurn accepted.
C21_GoToJail ==
  [][(JailByTile \/ JailByCard) =>
       /\ players'[current].position = jailIndex
       /\ players'[current].inJailTurns = MAX_JAIL_TURNS
       /\ players'[current].money = players[current].money + RollBonus
       /\ JailByTile => players'[current].money = players[current].money
       /\ ~players'[current].bankrupt
       /\ \A q \in PlayerIds \ {current} : players'[q] = players[q]
       /\ tiles' = tiles
       /\ turn'.awaitingPurchase = NoTile
       /\ turn'.awaitingUpgrade = NoTile
       /\ JailByCard => deck' = Tail(deck)
       /\ status' = "active"
       /\ turn'.currentPlayerId = current
       /\ turn'.rolled
       /\ turnNumber' = turnNumber
       /\ endTurnError(Game', current) = ""]_vars

\* game D, turn 3: player 1 rolled 6+6 from tile 12 past the start to the
\* event tile 4, drew the go-to-jail card, and sits in jail with the 200 of
\* the start and nothing more
C21_Witness ==
  /\ last = [op |-> "rollDice", ok |-> TRUE]
  /\ turn.dice.total = 12
  /\ current = 1
  /\ players[1].position = jailIndex
  /\ players[1].inJailTurns = MAX_JAIL_TURNS
  /\ players[1].money = 1500 + settings.passStartBonus
  /\ deck = << >>

\* what resolving tile i costs the current player: the tax of a tax tile,
\* the rent of a property of another player who is not bankrupt
ChargeAt(i) ==
  IF TileType(i) = "tax" THEN DEFAULT_BOARD[i + 1].amount
  ELSE IF /\ i \in PropertyIndex
          /\ tiles[i].ownerId \notin {NoPlayer, current}
          /\ ~players[tiles[i].ownerId].bankrupt
       THEN TileBaseRent(i) * Max(1, tiles[i].level)
  ELSE 0

\* a returned roll of the current player, who is not in jail
FreeRoll ==
  /\ Returned("rollDice")
  /\ status = "active"
  /\ players[current].inJailTurns = 0

\* the game with the current player put on tile q
StandingOn(q) == [Game EXCEPT !.players[current].position = q]

\* C22: movement.  A roll of total t by a player at p who is not in jail
\* moves the player to (p + t) mod N and pays the pass-start bonus once
\* exactly if p + t >= N: the player ends on that tile with the bonus less
\* the tax or rent of the tile, unless the tile sends them on (an event
\* tile, go-to-jail).  A card that moves the player backward pays no bonus,
\* from whatever tile.  Every position is in 0..N-1 in every state.
C22_Movement ==
  [][/\ \A q \in PlayerIds :
          players[q].position \in TileIndex /\ players'[q].position \in TileIndex
     /\ FreeRoll =>
          LET me == current
              t == turn'.dice.total
              d == Destination
              moved == movePlayer(Game, me, t)
          IN /\ moved.players[me].position = d
             /\ moved.players[me].money = players[me].money + RollBonus
             /\ TileType(d) \notin {"event", "go-to-jail"} =>
                  /\ players'[me].position = d
                  /\ players'[me].money =
                       players[me].money + RollBonus - ChargeAt(d)
             /\ (TileType(d) = "event" /\ Len(deck) > 0 /\ Head(deck).move < 0) =>
                  /\ players'[me].position = d + Head(deck).move
                  /\ players'[me].money =
                       players[me].money + RollBonus + Head(deck).money
                         - ChargeAt(d + Head(deck).move)
             /\ \A q \in TileIndex :
                  LET back == movePlayer(StandingOn(q), me, -2)
                  IN /\ back.players[me].money = players[me].money
                     /\ back.players[me].position = (q + tilesCount - 2) % tilesCount]_vars

\* a free player rolled past the start to a tax tile and has the bonus less
\* the tax
C22_Witness ==
  /\ last = [op |-> "rollDice", ok |-> TRUE]
  /\ status = "active"
  /\ TileType(players[current].position) = "tax"
  /\ players[current].position < turn.dice.total
  /\ players[current].inJailTurns = 0
  /\ ~players[current].bankrupt

\* C23: every recorded roll has both values in 1..6 and the total equal to
\* their sum, and after a rollDice that returned the roll is recorded and
\* rolled is true, also when the player is still in jail.
C23_Dice ==
  /\ turn.dice # NoDice =>
       /\ turn.dice.values[1] \in 1 .. 6
       /\ turn.dice.values[2] \in 1 .. 6
       /\ turn.dice.total = turn.dice.values[1] + turn.dice.values[2]
       /\ turn.dice.total \in 2 .. 12
  /\ last = [op |-> "rollDice", ok |-> TRUE] =>
       (turn.rolled /\ turn.dice # NoDice)

\* a jailed player rolled 1+6, stays in jail with one attempt less, and the
\* roll is recorded
C23_Witness ==
  /\ last = [op |-> "rollDice", ok |-> TRUE]
  /\ players[current].inJailTurns > 0
  /\ players[current].inJailTurns < MAX_JAIL_TURNS
  /\ players[current].position = jailIndex
  /\ turn.rolled
  /\ turn.dice = [values |-> <<1, 6>>, total |-> 7]

\* a number in min..max
InRange(v, min, max) == v.kind = "number" /\ v.n \in min .. max

\* C24: after the constructor's sanitizeSettings, startingCash is in
\* 500..4000, passStartBonus in 100..500 and maxPlayers in 2..12 for every
\* override, and a field that is missing from the override or is not a
\* number has the default value.
C24_Sanitised ==
  [][last'.op = "sanitizeSettings" =>
       /\ InRange(settings'.startingCash, 500, 4000)
       /\ InRange(settings'.passStartBonus, 100, 500)
       /\ InRange(settings'.maxPlayers, 2, 12)
       /\ \A k \in DOMAIN settings :
            settings[k].kind # "number" =>
              settings'[k] = JsNumber(DEFAULT_SETTINGS[k])]_vars

\* ------------------------------------------------------------------------
\* Failed jail rolls, pending decisions and the deck
\* ------------------------------------------------------------------------

\* a rollDice of a player with 2 or 3 jail turns returned with no double
FailedJailRoll ==
  /\ Returned("rollDice")
  /\ status = "active"
  /\ players[current].inJailTurns \in {2, 3}
  /\ turn'.dice.values[1] # turn'.dice.values[2]

\* C28: a jailed player with inJailTurns 2 or 3 who rolls no double has
\* inJailTurns one less and is otherwise as before: position and money are
\* the same, as are all other players, all tiles and the deck; no purchase
\* or upgrade is pending, rolled is true and endTurn is accepted.
C28_FailedJailRoll ==
  [][FailedJailRoll =>
       /\ players' = [players EXCEPT ![current].inJailTurns = @ - 1]
       /\ players'[current].position = jailIndex
       /\ tiles' = tiles
       /\ deck' = deck
       /\ status' = "active"
       /\ winnerId' = winnerId
       /\ turnNumber' = turnNumber
       /\ turn'.currentPlayerId = current
       /\ turn'.rolled
       /\ turn'.awaitingPurchase = NoTile
       /\ turn'.awaitingUpgrade = NoTile
       /\ endTurnError(Game', current) = ""]_vars

\* game A, turn 8: player 1, jailed with 3 turns and 40 in cash, rolled no
\* double and sits in jail with 2 turns and the same 40
C28_Witness ==
  /\ last = [op |-> "rollDice", ok |-> TRUE]
  /\ current = 1
  /\ players[1] = [money |-> 40, position |-> jailIndex, inJailTurns |-> 2,
                   bankrupt |-> FALSE]
  /\ turn.dice.values[1] # turn.dice.values[2]
  /\ turn.rolled

\* C29: the two pending decisions exclude each other.  In no state are
\* awaitingPurchase and awaitingUpgrade both set, and neither is set while
\* the dice of the turn are not rolled, so both are unset when a turn starts.
C29_PendingExclusive ==
  /\ ~(turn.awaitingPurchase # NoTile /\ turn.awaitingUpgrade # NoTile)
  /\ ~turn.rolled =>
       (turn.awaitingPurchase = NoTile /\ turn.awaitingUpgrade = NoTile)
  /\ (last.ok /\ last.op \in {"constructor", "startGame", "startGameMessage",
                               "endTurn"}) =>
       (turn.awaitingPurchase = NoTile /\ turn.awaitingUpgrade = NoTile
          /\ ~turn.rolled)

\* a turn started after the turn before it ended with an upgrade on offer
\* for a tile its player stands on
C29_Witness ==
  /\ last = [op |-> "endTurn", ok |-> TRUE]
  /\ status = "active"
  /\ turn.awaitingPurchase = NoTile
  /\ turn.awaitingUpgrade = NoTile
  /\ \E q \in PlayerIds \ {current} :
       /\ players[q].position \in PropertyIndex
       /\ tiles[players[q].position].ownerId = q
       /\ tiles[players[q].position].level < MAX_PROPERTY_LEVEL
       /\ turnNumber > horizon

\* ------------------------------------------------------------------------
\* The event deck
\* ------------------------------------------------------------------------

\* the roll is a jailed player's last attempt: no double with one turn
\* left, so the bail is charged and, if the player can pay it, the token moves
BailedOutRoll ==
  /\ Returned("rollDice")
  /\ status = "active"
  /\ players[current].inJailTurns = 1
  /\ turn'.dice.values[1] # turn'.dice.values[2]
  /\ players[current].money >= BAIL_COST

\* the roll ends on an event tile, so a card is drawn
Draws == (RollMoves \/ BailedOutRoll) /\ TileType(Destination) = "event"

\* no card is twice in the deck d, which holds no more than the card set
DeckWellFormed(d) ==
  /\ Len(d) <= Len(EVENT_CARDS)
  /\ \A i, j \in 1 .. Len(d) : i # j => d[i] # d[j]

\* C30: deck cycling.  The deck changes only when a card is drawn; a draw
\* from a deck that is not empty removes its front card; a draw that finds
\* the deck empty refills it with a permutation of the full card set and
\* removes the front card of that; so the deck never holds more cards than
\* the card set and never holds a card twice, and the cards of one refill
\* are drawn once each before the next refill.
C30_DeckCycle ==
  [][/\ DeckWellFormed(deck) /\ DeckWellFormed(deck')
     /\ IF Draws
        THEN IF Len(deck) > 0
             THEN deck' = Tail(deck)
             ELSE \E sh \in shuffle(EVENT_CARDS) : deck' = Tail(sh)
        ELSE deck' = deck]_vars

\* game B, turn 10: the first player has rolled onto an event tile with the
\* deck empty; the deck was refilled and now holds all cards but one
C30_Witness ==
  /\ last = [op |-> "rollDice", ok |-> TRUE]
  /\ turnNumber = 10 /\ Len(players) = 3 /\ players[3].money >= 1300
  /\ turn.rolled
  /\ Len(deck) = Len(EVENT_CARDS) - 1

\* ------------------------------------------------------------------------
\* The room listing, connection loss and message delivery
\* ------------------------------------------------------------------------

\* a connection is registered for the player and the player's flag is not set
Connected(p) == p \in DOMAIN connections /\ p \notin disconnected

\* C25: the room listing.  The listing has no entry for the room if its
\* game is finished or none of its players is connected, and has the room
\* otherwise, with exactly the connected players and their count; a player
\* is connected if a connection is registered for the player and the
\* player's disconnected flag is not set.
C25_Listing ==
  LET listing == roomsListing(Room)
      connected == { p \in PlayerIds : Connected(p) }
  IN IF status = "finished" \/ connected = {}
     THEN listing = << >>
     ELSE /\ Len(listing) = 1
          /\ listing[1].status = status
          /\ listing[1].playerCount = Len(players)
          /\ listing[1].connectedCount = Cardinality(connected)
          /\ { listing[1].players[i] : i \in 1 .. Len(listing[1].players) } = connected

\* the host has finished the game while a player is connected, and the room
\* is not listed
C25_Witness ==
  /\ last = [op |-> "finishGame", ok |-> TRUE]
  /\ status = "finished"
  /\ \E p \in PlayerIds : Connected(p)
  /\ roomsListing(Room) = << >>

\* the k-th player after p in the order of the list
After(p, k) == ((p - 1 + k) % Len(players)) + 1

\* the first solvent player after the current one, whatever the flags
NextInRotation ==
  LET k == CHOOSE k \in 1 .. Len(players) :
             /\ ~players[After(current, k)].bankrupt
             /\ \A j \in 1 .. (k - 1) : players[After(current, j)].bankrupt
  IN After(current, k)

\* C26: connection loss and reconnect leave the game alone.  The loss of a
\* connection changes nothing of the game; its close event sets the
\* disconnected flag of the connection's player and removes the connection
\* registered for that player, and does nothing if the connection was in no
\* room.  An accepted reconnect clears the flag of the named player and
\* changes nothing of the game; a reconnect naming an unknown player id is
\* rejected, and a rejected reconnect changes no flag and no registration.
\* The turn passes to the next solvent player of the list whether or not
\* that player is disconnected.
C26_ConnectionFrame ==
  [][/\ last'.op \in {"closing", "close", "reconnect"} => UNCHANGED gameVars
     /\ last'.op = "closing" =>
          UNCHANGED <<disconnected, connections, session>>
     /\ last'.op = "close" =>
          IF sender' \in DOMAIN session
          THEN /\ disconnected' = disconnected \cup {session[sender']}
               /\ connections' = MapDelete(connections, session[sender'])
          ELSE UNCHANGED <<disconnected, connections>>
     /\ last'.op = "reconnect" =>
          IF last'.ok
          THEN \E p \in PlayerIds :
                 /\ disconnected' = disconnected \ {p}
                 /\ connections' = MapSet(connections, p, sender')
          ELSE UNCHANGED <<disconnected, connections, session>>
     /\ \A ws \in Sockets : \A roomKnown \in BOOLEAN :
          handleReconnectError(
            Room, ws,
            Message("reconnect", roomKnown, NoPlayer, Len(players) + 1, NoTile)) # ""
     /\ (last'.op = "endTurn" /\ last'.ok /\ status' = "active") =>
          turn'.currentPlayerId = NextInRotation]_vars

\* a turn has just passed to a player whose disconnected flag is set
C26_Witness ==
  /\ last = [op |-> "endTurn", ok |-> TRUE]
  /\ status = "active"
  /\ current \in disconnected
  /\ current \notin DOMAIN connections

\* the messages a connection sends to the room
HandledTypes == RoomMessages \cup {"joinRoom", "reconnect", "upgradeProperty"}

\* the open connections registered in room.connections
RoomConnections ==
  { ws \in Sockets : readyState[ws] = "OPEN"
                       /\ \E p \in DOMAIN connections : connections[p] = ws }

\* in the messages sent to a connection every dice event precedes every snapshot
DiceFirst(msgs) ==
  \A i, j \in 1 .. Len(msgs) : (msgs[i] = "dice" /\ msgs[j] = "state") => i < j

Received(ws, type) == \E i \in 1 .. Len(sent[ws]) : sent[ws][i] = type

PaidFromFunds == {"buyProperty", "upgradeProperty", "payBail"}

\* C31: money is never left negative on a solvent player.  In every
\* reachable state a player who is not bankrupt has money >= 0, so negative
\* money is found only on bankrupt players; and after an accepted
\* buyProperty, upgradeProperty or payBail the caller, who is the current
\* player, is not bankrupt.
C31_SolventMoney ==
  /\ \A p \in PlayerIds : ~players[p].bankrupt => players[p].money >= 0
  /\ (last.ok /\ last.op \in PaidFromFunds) => ~players[current].bankrupt

\* a roll has charged its player more than the player had: the player is
\* bankrupt with negative money, the game goes on with the others solvent
C31_Witness ==
  /\ last = [op |-> "rollDice", ok |-> TRUE]
  /\ status = "active"
  /\ players[current].bankrupt /\ players[current].money < 0
  /\ \E p \in PlayerIds : ~players[p].bankrupt /\ players[p].money < BAIL_COST

\* C32: the jail state is consistent.  In every reachable state each
\* player's inJailTurns is between 0 and MAX_JAIL_TURNS, a player with
\* inJailTurns > 0 stands on the jail tile, and a bankrupt player has
\* inJailTurns = 0.
C32_JailConsistent ==
  \A p \in PlayerIds :
    /\ players[p].inJailTurns \in 0 .. MAX_JAIL_TURNS
    /\ players[p].inJailTurns > 0 => players[p].position = jailIndex
    /\ players[p].bankrupt => players[p].inJailTurns = 0

\* a roll has just sent its player to jail for the full count while another
\* player is bankrupt and free
C32_Witness ==
  /\ last = [op |-> "rollDice", ok |-> TRUE]
  /\ players[current].inJailTurns = MAX_JAIL_TURNS
  /\ players[current].position = jailIndex
  /\ turn.dice.values[1] = turn.dice.values[2]
  /\ \E q \in PlayerIds : players[q].bankrupt /\ players[q].inJailTurns = 0

\* C33: a pending purchase is well founded.  Whenever a purchase is pending
\* in an active game the dice have been rolled, the tile on offer is a
\* property without owner, and the current player is solvent and stands on
\* it; so in no reachable state does buyProperty answer that the property
\* has an owner or rollDice that a purchase must be decided first, whoever
\* calls and whatever tile is named.
C33_PendingPurchase ==
  /\ (status = "active" /\ turn.awaitingPurchase # NoTile) =>
       /\ turn.rolled
       /\ turn.awaitingPurchase \in PropertyIndex
       /\ tiles[turn.awaitingPurchase].ownerId = NoPlayer
       /\ ~players[current].bankrupt
       /\ players[current].position = turn.awaitingPurchase
  /\ LET g == Game
     IN \A p \in PlayerIds :
          /\ rollDiceError(g, p)
               # "Decida comprar ou passar a propriedade antes."
          /\ \A t \in TileIndex :
               buyPropertyError(g, p, t) # "Propriedade ja possui dono"

\* a roll has ended on a property without owner, which is on offer to the
\* player, while other properties have owners
C33_Witness ==
  /\ last = [op |-> "rollDice", ok |-> TRUE]
  /\ status = "active"
  /\ turn.awaitingPurchase # NoTile
  /\ players[current].position = turn.awaitingPurchase
  /\ \E t \in PropertyIndex : tiles[t].ownerId \notin {NoPlayer, current}

\* ------------------------------------------------------------------------
\* Progress of the turn
\* ------------------------------------------------------------------------

\* C34: no deadlock inside a turn.  In every reachable active state the
\* current player has an accepted action: rollDice if the dice are not
\* rolled, else passPurchase if a purchase is pending, else endTurn; and
\* the passPurchase of a pending purchase leaves a state in which endTurn
\* is accepted, so that roll, pass and end, three actions at most, pass the
\* turn.
C34_NoDeadlock ==
  status = "active" =>
    IF ~turn.rolled THEN rollDiceError(Game, current) = ""
    ELSE IF turn.awaitingPurchase # NoTile
    THEN /\ passPurchaseError(Game, current) = ""
         /\ endTurnError(passPurchase(Game, current), current) = ""
    ELSE endTurnError(Game, current) = ""

\* a roll has ended on a property the player cannot afford: neither
\* rollDice, buyProperty nor endTurn is accepted, passPurchase is
C34_Witness ==
  /\ last = [op |-> "rollDice", ok |-> TRUE]
  /\ status = "active"
  /\ turn.awaitingPurchase # NoTile
  /\ buyPropertyError(Game, current, turn.awaitingPurchase) = "Dinheiro insuficiente"
  /\ rollDiceError(Game, current) # ""
  /\ endTurnError(Game, current) # ""
  /\ passPurchaseError(Game, current) = ""

\* the game is active and the player whose turn it is is bankrupt
BankruptOnTurn == status = "active" /\ players[current].bankrupt

\* C35: bankruptcy does not pass the turn.  A roll that makes its player
\* bankrupt while two or more other players stay solvent leaves the game
\* active and the turn with the bankrupt player, whose endTurn is accepted.
\* While the game is active with a bankrupt player on turn, every turn
\* action of every other player is rejected, and a step leaves the game
\* active with the same player on turn unless it is that player's endTurn
\* or the game is finished by net worth.
C35_BankruptKeepsTurn ==
  [][/\ (/\ Returned("rollDice")
          /\ ~players[current].bankrupt
          /\ players'[current].bankrupt
          /\ Cardinality(alive') >= 2) =>
            /\ status' = "active"
            /\ turn'.currentPlayerId = current
            /\ turnNumber' = turnNumber
            /\ endTurnError(Game', current) = ""
     /\ BankruptOnTurn =>
          /\ endTurnError(Game, current) = ""
          /\ \A p \in PlayerIds \ {current} : AllRejected(p)
          /\ \/ status' = "active" /\ turn'.currentPlayerId = current
             \/ Returned("endTurn")
             \/ last'.op \in {"finishByNetWorth", "finishGameMessage"}]_vars

\* a roll has left its player bankrupt, two other players are solvent and
\* the game is active with the bankrupt player on turn
C35_Witness ==
  /\ last = [op |-> "rollDice", ok |-> TRUE]
  /\ BankruptOnTurn
  /\ players[current].money < 0
  /\ Cardinality(alive) >= 2
  /\ turn.rolled

\* C36: round robin.  An accepted endTurn raises the turn counter by exactly
\* one and gives the turn to the first solvent player after the current one
\* in list order, every player passed over being bankrupt; no other step
\* changes the turn counter, and no other step but startGame changes the
\* player whose turn it is; players are never removed from the list and a
\* bankrupt player never becomes solvent.  So between two turns of a
\* solvent player each other solvent player has exactly one turn.
C36_RoundRobin ==
  [][/\ Returned("endTurn") =>
          /\ turnNumber' = turnNumber + 1
          /\ turn'.currentPlayerId = NextInRotation
          /\ ~players'[turn'.currentPlayerId].bankrupt
          /\ ~turn'.rolled
     /\ ~Returned("endTurn") =>
          /\ turnNumber' = turnNumber
          /\ (turn'.currentPlayerId # current) => (Returned("startGame") \/ Returned("startGameMessage"))
     /\ Len(players') >= Len(players)
     /\ \A p \in PlayerIds : players[p].bankrupt => players'[p].bankrupt]_vars

\* a turn has just passed over a bankrupt player: the player before the
\* current one in list order is bankrupt
C36_Witness ==
  /\ last = [op |-> "endTurn", ok |-> TRUE]
  /\ status = "active"
  /\ turnNumber = horizon + 1
  /\ players[After(current, Len(players) - 1)].bankrupt
  /\ ~players[current].bankrupt

\* the players of the list whom the step makes bankrupt
NewlyBankrupt == { p \in PlayerIds : ~players[p].bankrupt /\ players'[p].bankrupt }

\* C37: only the player on turn goes bankrupt, and only in the own roll.  No
\* step makes a player other than the current one bankrupt or lowers that
\* player's money; a player who goes bankrupt is the current player and the
\* step is an accepted rollDice; and no step makes two players bankrupt.
C37_OnlyCurrentBankrupt ==
  [][/\ \A p \in PlayerIds \ {current} :
          /\ players'[p].bankrupt = players[p].bankrupt
          /\ players'[p].money >= players[p].money
     /\ NewlyBankrupt # {} => (NewlyBankrupt = {current} /\ Returned("rollDice"))
     /\ Cardinality(NewlyBankrupt) <= 1]_vars

\* a roll has ended on a rival's property and the rent has left the player
\* bankrupt; the rival is solvent and still owns the property
C37_Witness ==
  /\ last = [op |-> "rollDice", ok |-> TRUE]
  /\ players[current].bankrupt /\ players[current].money < 0
  /\ players[current].position \in PropertyIndex
  /\ tiles[players[current].position].ownerId \notin {NoPlayer, current}
  /\ ~players[tiles[players[current].position].ownerId].bankrupt

\* C38: the winner and the status agree.  In every reachable state winnerId
\* is set exactly if the status is finished, and a winnerId that is set
\* names a player of the list who is not bankrupt.
C38_WinnerIffFinished ==
  /\ (winnerId # NoPlayer) <=> (status = "finished")
  /\ winnerId # NoPlayer => (winnerId \in PlayerIds /\ ~players[winnerId].bankrupt)

\* a roll has made its player bankrupt and left one solvent player, who is
\* the winner of the finished game
C38_Witness ==
  /\ last = [op |-> "rollDice", ok |-> TRUE]
  /\ status = "finished"
  /\ players[current].bankrupt
  /\ winnerId \in PlayerIds \ {current}
  /\ alive = {winnerId}

\* C39: property levels stay in range.  Every tile has a level of at most
\* MAX_PROPERTY_LEVEL and every owned tile a level of at least 1; no
\* upgradeProperty is accepted for a tile at the maximum, whoever calls, and
\* the tile just upgraded is at a level from 2 to MAX_PROPERTY_LEVEL; the
\* tile just bought is at level 1, whatever level it kept from a bankrupt
\* owner.
C39_LevelsInRange ==
  /\ \A t \in PropertyIndex :
       /\ tiles[t].level \in 0 .. MAX_PROPERTY_LEVEL
       /\ tiles[t].ownerId # NoPlayer => tiles[t].level >= 1
  /\ LET g == Game
     IN \A t \in {u \in PropertyIndex : tiles[u].level >= MAX_PROPERTY_LEVEL} :
          \A p \in PlayerIds : upgradePropertyError(g, p, t) # ""
  /\ last = [op |-> "upgradeProperty", ok |-> TRUE] =>
       /\ tiles[players[current].position].ownerId = current
       /\ tiles[players[current].position].level \in 2 .. MAX_PROPERTY_LEVEL
  /\ last = [op |-> "buyProperty", ok |-> TRUE] =>
       tiles[players[current].position] = [ownerId |-> current, level |-> 1]

\* game B, turn 28: player 1 went bankrupt owning tile 9 at level 3, which
\* went back to the bank at that level; player 2 rolled 9 from the start
\* tile and bought it, and owns it at level 1
C39_Witness ==
  /\ last = [op |-> "buyProperty", ok |-> TRUE]
  /\ turnNumber = 28
  /\ players[1].bankrupt
  /\ current = 2
  /\ players[2].position = 9
  /\ tiles[9] = [ownerId |-> 2, level |-> 1]

====
